---- MODULE Spec2Model ----
(***************************************************************************)
(* A model of the streamit-hls compiler core: the expression lowerer       *)
(* (frontend/expression_builder.cpp), which turns analysed expressions     *)
(* into SSA basic-block IR, and the C emitter (hlstarget/CBackend.cpp),    *)
(* which serialises that IR as C text.                                     *)
(*                                                                         *)
(* SpecLower : a FunctionBuilder lowering expression statements.           *)
(* SpecEmit  : a CWriter printing the blocks of one IR function.           *)
(* SpecPrint : the CWriter's printing functions applied to one type,       *)
(*             constant, name or operation.                                *)
(* SpecModule: a CWriter emitting the functions of a module and then the   *)
(*             header (doFinalization).                                    *)
(***************************************************************************)
EXTENDS Integers, Sequences, FiniteSets, TLC

VARIABLES
  fb,      \* FunctionBuilder: blocks, m_current_basic_block, value numbering
  last,    \* the expression statement lowered last and what Accept returned
  fn,      \* CWriter: the IR function being printed
  pos,     \* CWriter: <<block index, instruction index>> of the next step
  out,     \* CWriter: the statements written to Out so far
  cw,      \* CWriter: the numbering counters, id maps and declaration sets
  ast      \* AST: the NodeLists of the parser and the call made last

vars == <<fb, last, fn, pos, out, cw, ast>>

\* ------------------------------------------------------------------------
\* Bounds of the model.
\* ------------------------------------------------------------------------

\* Expression statements lowered into one function.
MaxStmts == 1

\* ------------------------------------------------------------------------
\* IR types and values.
\* ------------------------------------------------------------------------

IntTy(w) == [k |-> "int", w |-> w]
FloatTy == [k |-> "float", w |-> 32]
PtrTy == [k |-> "ptr", w |-> 0]
VoidTy == [k |-> "void", w |-> 0]
LabelTy == [k |-> "label", w |-> 0]

\* A value: constant, instruction result, variable slot, argument, or null.
Null == [k |-> "null", id |-> 0, ty |-> VoidTy]
ConstV(n, ty) == [k |-> "const", id |-> n, ty |-> ty]
InstV(n, ty) == [k |-> "inst", id |-> n, ty |-> ty]
SlotV(d, ty) == [k |-> "slot", id |-> d, ty |-> ty]
ArgV(d, ty) == [k |-> "arg", id |-> d, ty |-> ty]
UndefV(ty) == [k |-> "undef", id |-> 0, ty |-> ty]

\* An instruction: result id and type, opcode, operands, successor blocks of
\* a terminator, incoming blocks of a PHI (one per operand), predicate of a
\* compare.
Inst(id, op, args, ty, succ, inc) ==
  [id |-> id, op |-> op, args |-> args, ty |-> ty, succ |-> succ, inc |-> inc, p |-> ""]

\* Source-language types and their IR types.
TInt == [k |-> "Int", w |-> 32]
TBoolean == [k |-> "Boolean", w |-> 1]
TBit == [k |-> "Bit", w |-> 1]
TFloat == [k |-> "Float", w |-> 32]
TAPInt(w) == [k |-> "APInt", w |-> w]

IsInt(t) == t.k = "Int"
IsAPInt(t) == t.k = "APInt"
IsFloat(t) == t.k = "Float"
IsBoolean(t) == t.k = "Boolean"

GetLLVMType(t) == IF t.k = "Float" THEN FloatTy ELSE IntTy(t.w)

\* ------------------------------------------------------------------------
\* FunctionBuilder.
\* ------------------------------------------------------------------------

\* The builder after construction: one entry block, which is current.
NewFunctionBuilder == [blocks |-> << <<>> >>, cur |-> 1, next |-> 1, logical |-> <<>>]

GetCurrentBasicBlock(b) == b.cur

\* NewBasicBlock: appends a block to the function, makes it current (the
\* current IRBuilder inserts at its end) and returns the old block.
NewBasicBlock(b) ==
  [old |-> b.cur,
   fb |-> [b EXCEPT !.blocks = Append(b.blocks, <<>>), !.cur = Len(b.blocks) + 1]]

\* m_vars: mutable declarations map to their stack slot, constant ones to
\* the SSA value they are bound to.
GetVariable(decl, isConst, ty) ==
  IF isConst THEN ArgV(decl, GetLLVMType(ty)) ELSE SlotV(decl, GetLLVMType(ty))

\* An IRBuilder whose insertion point is the end of block bb.
Insert(b, bb, op, args, ty, succ, inc) ==
  [v |-> InstV(b.next, ty),
   fb |-> [b EXCEPT !.blocks[bb] = Append(@, Inst(b.next, op, args, ty, succ, inc)),
                    !.next = @ + 1]]

\* GetIRBuilder(): the builder of the current basic block.
Create(b, op, args, ty) == Insert(b, b.cur, op, args, ty, <<>>, <<>>)

\* ------------------------------------------------------------------------
\* The analysed AST.  A node carries its kind, operator, resolved type
\* (GetType), intermediate type (relational), literal value or referenced
\* declaration, the constant flag of that declaration, and its children.
\* ------------------------------------------------------------------------

Node(kind, op, ty, val, kids) ==
  [kind |-> kind, op |-> op, ty |-> ty, ity |-> ty, val |-> val, c |-> FALSE, kids |-> kids]

IntegerLiteral(n) == Node("IntegerLiteral", "", TInt, n, <<>>)
BooleanLiteral(n) == Node("BooleanLiteral", "", TBoolean, n, <<>>)
FloatLiteral(n) == Node("FloatLiteral", "", TFloat, n, <<>>)
Identifier(decl, ty, isConst) == [Node("Identifier", "", ty, decl, <<>>) EXCEPT !.c = isConst]
IndexExpr(arr, idx, ty) == Node("Index", "", ty, 0, <<arr, idx>>)
CommaExpr(l, r) == Node("Comma", "", r.ty, 0, <<l, r>>)
AssignmentExpr(l, op, r) == Node("Assignment", op, l.ty, 0, <<l, r>>)
UnaryExpr(op, r, ty) == Node("Unary", op, ty, 0, <<r>>)
BinaryExpr(l, op, r, ty) == Node("Binary", op, ty, 0, <<l, r>>)
RelationalExpr(l, op, r, ity) == [Node("Relational", op, TBoolean, 0, <<l, r>>) EXCEPT !.ity = ity]
LogicalExpr(l, op, r) == Node("Logical", op, TBoolean, 0, <<l, r>>)
PeekExpr(idx, ty) == Node("Peek", "", ty, 0, <<idx>>)
PopExpr(ty) == Node("Pop", "", ty, 0, <<>>)
CallExpr(f, ty, args) == Node("Call", "", ty, f, args)
CastExpr(to, e) == Node("Cast", "", to, 0, <<e>>)
InitializerList(ty) == Node("InitializerList", "", ty, 0, <<>>)

\* AST::UnaryExpression::Operator, in declaration order.
UnaryOperators ==
  <<"PreIncrement", "PreDecrement", "PostIncrement", "PostDecrement",
    "Positive", "Negative", "LogicalNot", "BitwiseNot">>

\* AST::AssignmentExpression::Operator.
AssignmentOperators ==
  {"Assign", "Add", "Subtract", "Multiply", "Divide", "Modulo", "BitwiseAnd",
   "BitwiseOr", "BitwiseXor", "LeftShift", "RightShift"}

\* AST::AssignmentExpression accessors: the l-value and the right-hand side.
GetLValueExpression(node) == node.kids[1]
GetInnerExpression(node) == node.kids[2]

\* ------------------------------------------------------------------------
\* ExpressionBuilder.  A visit returns whether it returned true, whether a
\* failing assert was passed on the way (a build with asserts aborts there,
\* a build without them continues), m_result_ptr, m_result_value and the
\* function builder it left behind.
\* ------------------------------------------------------------------------

Ret(ok, asserted, ptr, val, b) ==
  [ok |-> ok, asserted |-> asserted, ptr |-> ptr, val |-> val, fb |-> b]

IsValid(r) == r.ptr # Null \/ r.val # Null
IsPointer(r) == r.ptr # Null
GetResultPtr(r) == r.ptr

\* return IsValid();
RetValid(asserted, ptr, val, b) ==
  Ret(ptr # Null \/ val # Null, asserted, ptr, val, b)

\* GetResultValue: the value, loading the pointer with the current IRBuilder
\* when there is no value yet.
GetResultValue(r, b) ==
  IF r.val = Null /\ r.ptr # Null
    THEN Create(b, "load", <<r.ptr>>, r.ptr.ty)
    ELSE [v |-> r.val, fb |-> b]

RECURSIVE Accept(_, _)

\* Visit(AST::Node*): the fallback handler.
VisitNode(node, b) == Ret(FALSE, TRUE, Null, Null, b)

VisitIntegerLiteralExpression(node, b) ==
  RetValid(FALSE, Null, ConstV(node.val, GetLLVMType(node.ty)), b)

\* ConstantInt::get(i1, value ? 1 : 0); constants are kept as the signed
\* value of their width, so the set bit of an i1 is -1.
VisitBooleanLiteralExpression(node, b) ==
  RetValid(FALSE, Null, ConstV(IF node.val # 0 THEN -1 ELSE 0, GetLLVMType(node.ty)), b)

VisitFloatLiteralExpression(node, b) ==
  RetValid(FALSE, Null, ConstV(node.val, GetLLVMType(node.ty)), b)

VisitIdentifierExpression(node, b) ==
  IF node.c
    THEN RetValid(FALSE, Null, GetVariable(node.val, TRUE, node.ty), b)
    ELSE RetValid(FALSE, GetVariable(node.val, FALSE, node.ty), Null, b)

VisitIndexExpression(node, b) ==
  LET a == Accept(node.kids[1], b) IN
  IF ~a.ok \/ ~IsValid(a) THEN Ret(FALSE, a.asserted, Null, Null, a.fb) ELSE
  LET i == Accept(node.kids[2], a.fb) IN
  IF ~i.ok \/ ~IsValid(i) THEN Ret(FALSE, a.asserted \/ i.asserted, Null, Null, i.fb) ELSE
  LET iv == GetResultValue(i, i.fb)
      g == Create(iv.fb, "gep", <<GetResultPtr(a), ConstV(0, IntTy(32)), iv.v>>,
                  GetLLVMType(node.ty))
  IN RetValid(a.asserted \/ i.asserted, g.v, Null, g.fb)

\* Both builders are handed to GetLHSExpression().
VisitCommaExpression(node, b) ==
  LET l == Accept(node.kids[1], b) IN
  IF ~l.ok \/ ~IsValid(l) THEN Ret(FALSE, l.asserted, Null, Null, l.fb) ELSE
  LET r == Accept(node.kids[1], l.fb) IN
  IF ~r.ok \/ ~IsValid(r) THEN Ret(FALSE, l.asserted \/ r.asserted, Null, Null, r.fb) ELSE
  IF IsPointer(r)
    THEN RetValid(l.asserted \/ r.asserted, GetResultPtr(r), Null, r.fb)
    ELSE LET rv == GetResultValue(r, r.fb)
         IN RetValid(l.asserted \/ r.asserted, Null, rv.v, rv.fb)

VisitAssignmentExpression(node, b) ==
  LET e == Accept(GetInnerExpression(node), b) IN
  IF ~e.ok \/ ~IsValid(e) THEN Ret(FALSE, e.asserted, Null, Null, e.fb) ELSE
  LET l == Accept(GetLValueExpression(node), e.fb) IN
  IF ~l.ok \/ ~IsValid(l) THEN Ret(FALSE, e.asserted \/ l.asserted, Null, Null, l.fb) ELSE
  IF ~IsPointer(l) THEN Ret(FALSE, TRUE, Null, Null, l.fb) ELSE
  LET ev == GetResultValue(e, l.fb)
      st == Create(ev.fb, "store", <<ev.v, GetResultPtr(l)>>, VoidTy)
  IN RetValid(e.asserted \/ l.asserted, GetResultPtr(l), Null, st.fb)

\* The unary operators that need a pointer: PreIncrement..PostDecrement.
OperatorIndex(op) == CHOOSE i \in 1..Len(UnaryOperators) : UnaryOperators[i] = op
IsIncrementOp(op) == OperatorIndex(op) >= OperatorIndex("PreIncrement")
                     /\ OperatorIndex(op) <= OperatorIndex("PostDecrement")

VisitUnaryExpression(node, b) ==
  LET e == Accept(node.kids[1], b) IN
  IF ~e.ok \/ ~IsValid(e) THEN Ret(FALSE, e.asserted, Null, Null, e.fb) ELSE
  IF IsIncrementOp(node.op) /\ ~IsPointer(e) THEN Ret(FALSE, TRUE, Null, Null, e.fb) ELSE
  IF IsInt(node.ty) \/ IsAPInt(node.ty)
    THEN
      IF node.op \in {"PostIncrement", "PostDecrement"}
        THEN LET ev == GetResultValue(e, e.fb)
                 t == Create(ev.fb, IF node.op = "PostIncrement" THEN "add" ELSE "sub",
                             <<ev.v, ConstV(1, IntTy(32))>>, ev.v.ty)
                 st == Create(t.fb, "store", <<t.v, GetResultPtr(e)>>, VoidTy)
             IN RetValid(e.asserted, Null, ev.v, st.fb)
      ELSE IF node.op \in {"PreIncrement", "PreDecrement"}
        THEN LET ev == GetResultValue(e, e.fb)
                 t == Create(ev.fb, IF node.op = "PreIncrement" THEN "add" ELSE "sub",
                             <<ev.v, ConstV(1, IntTy(32))>>, ev.v.ty)
                 st == Create(t.fb, "store", <<t.v, GetResultPtr(e)>>, VoidTy)
             IN RetValid(e.asserted, Null, t.v, st.fb)
      \* default: assert(0 && "unknown op")
      ELSE RetValid(TRUE, Null, Null, e.fb)
  ELSE IF IsFloat(node.ty)
    \* assert(0 && "implement me")
    THEN RetValid(TRUE, Null, Null, e.fb)
  ELSE RetValid(e.asserted, Null, Null, e.fb)

\* Signed division and remainder of the IR (toward zero).
Abs(x) == IF x < 0 THEN -x ELSE x
SDiv(x, y) == IF (x < 0) = (y < 0) THEN Abs(x) \div Abs(y) ELSE -(Abs(x) \div Abs(y))
SRem(x, y) == x - y * SDiv(x, y)

\* The IR opcode of each BinaryExpression operator on integers and floats.
IntOpcode(op) ==
  CASE op = "Add" -> "add" [] op = "Subtract" -> "sub" [] op = "Multiply" -> "mul"
    [] op = "Divide" -> "sdiv" [] op = "Modulo" -> "srem" [] op = "BitwiseAnd" -> "and"
    [] op = "BitwiseOr" -> "or" [] op = "BitwiseXor" -> "xor" [] op = "LeftShift" -> "shl"
    [] op = "RightShift" -> "ashr" [] OTHER -> ""

FloatOpcode(op) ==
  CASE op = "Add" -> "fadd" [] op = "Subtract" -> "fsub" [] op = "Multiply" -> "fmul"
    [] op = "Divide" -> "fdiv" [] op = "Modulo" -> "frem" [] OTHER -> ""

\* The IRBuilder folds an operation on two constants into a constant.
FoldBinary(opc, x, y) ==
  CASE opc \in {"add", "fadd"} -> x + y
    [] opc \in {"sub", "fsub"} -> x - y
    [] opc \in {"mul", "fmul"} -> x * y
    [] opc = "sdiv" -> SDiv(x, y)
    [] opc = "srem" -> SRem(x, y)

CreateBinOp(b, opc, l, r) ==
  IF l.k = "const" /\ r.k = "const"
    THEN [v |-> ConstV(FoldBinary(opc, l.id, r.id), l.ty), fb |-> b]
    ELSE Create(b, opc, <<l, r>>, l.ty)

VisitBinaryExpression(node, b) ==
  LET l == Accept(node.kids[1], b) IN
  IF ~l.ok \/ ~IsValid(l) THEN Ret(FALSE, l.asserted, Null, Null, l.fb) ELSE
  LET r == Accept(node.kids[2], l.fb) IN
  IF ~r.ok \/ ~IsValid(r) THEN Ret(FALSE, l.asserted \/ r.asserted, Null, Null, r.fb) ELSE
  LET sameTypes == node.kids[1].ty = node.ty /\ node.kids[2].ty = node.ty
      opc == IF IsFloat(node.ty) THEN FloatOpcode(node.op) ELSE IntOpcode(node.op)
      as == l.asserted \/ r.asserted
  IN
  IF IsInt(node.ty) \/ IsAPInt(node.ty) \/ IsFloat(node.ty)
    THEN LET lv == GetResultValue(l, r.fb)
             rv == GetResultValue(r, lv.fb)
         IN IF opc = ""
              THEN RetValid(TRUE, Null, Null, rv.fb)
              ELSE LET x == CreateBinOp(rv.fb, opc, lv.v, rv.v)
                   IN RetValid(as \/ ~sameTypes, Null, x.v, x.fb)
    ELSE RetValid(as, Null, Null, r.fb)

ICmpPredicate(op) ==
  CASE op = "Less" -> "slt" [] op = "LessEqual" -> "sle" [] op = "Greater" -> "sgt"
    [] op = "GreaterEqual" -> "sge" [] op = "Equal" -> "eq" [] op = "NotEqual" -> "ne"
    [] OTHER -> ""

FCmpPredicate(op) ==
  CASE op = "Less" -> "olt" [] op = "LessEqual" -> "ole" [] op = "Greater" -> "ogt"
    [] op = "GreaterEqual" -> "oge" [] op = "Equal" -> "oeq" [] op = "NotEqual" -> "one"
    [] OTHER -> ""

FoldCmp(p, x, y) ==
  LET t == CASE p \in {"slt", "olt"} -> x < y [] p \in {"sle", "ole"} -> x <= y
             [] p \in {"sgt", "ogt"} -> x > y [] p \in {"sge", "oge"} -> x >= y
             [] p \in {"eq", "oeq"} -> x = y [] p \in {"ne", "one"} -> x # y
  IN IF t THEN -1 ELSE 0

CreateCmp(b, opc, p, l, r) ==
  IF l.k = "const" /\ r.k = "const"
    THEN [v |-> ConstV(FoldCmp(p, l.id, r.id), IntTy(1)), fb |-> b]
    ELSE LET c == Create(b, opc, <<l, r>>, IntTy(1))
         IN [v |-> c.v, fb |-> [c.fb EXCEPT !.blocks[b.cur][Len(c.fb.blocks[b.cur])].p = p]]

VisitRelationalExpression(node, b) ==
  LET l == Accept(node.kids[1], b) IN
  IF ~l.ok \/ ~IsValid(l) THEN Ret(FALSE, l.asserted, Null, Null, l.fb) ELSE
  LET r == Accept(node.kids[2], l.fb) IN
  IF ~r.ok \/ ~IsValid(r) THEN Ret(FALSE, l.asserted \/ r.asserted, Null, Null, r.fb) ELSE
  LET sameTypes == node.kids[1].ty = node.ity /\ node.kids[2].ty = node.ity
      isF == IsFloat(node.ity)
      p == IF isF THEN FCmpPredicate(node.op) ELSE ICmpPredicate(node.op)
      as == l.asserted \/ r.asserted
  IN
  IF IsInt(node.ity) \/ IsAPInt(node.ity) \/ isF
    THEN LET lv == GetResultValue(l, r.fb)
             rv == GetResultValue(r, lv.fb)
         IN IF p = ""
              THEN RetValid(TRUE, Null, Null, rv.fb)
              ELSE LET x == CreateCmp(rv.fb, IF isF THEN "fcmp" ELSE "icmp", p, lv.v, rv.v)
                   IN RetValid(as \/ ~sameTypes, Null, x.v, x.fb)
    ELSE RetValid(as, Null, Null, r.fb)

VisitLogicalExpression(node, b) ==
  \* Evaluate left-hand side first, always, in the parent block
  LET l == Accept(node.kids[1], b) IN
  IF ~l.ok \/ ~IsValid(l) THEN Ret(FALSE, l.asserted, Null, Null, l.fb) ELSE
  LET bothBoolean == IsBoolean(node.kids[1].ty) /\ IsBoolean(node.kids[2].ty)
      \* Create a new block for the right-hand side of the expression
      nb1 == NewBasicBlock(l.fb)
      lhs_end_bb == nb1.old
      r == Accept(node.kids[2], nb1.fb)
  IN
  IF ~r.ok \/ ~IsValid(r)
    THEN Ret(FALSE, l.asserted \/ r.asserted \/ ~bothBoolean, Null, Null, r.fb) ELSE
  LET nb2 == NewBasicBlock(r.fb)
      rhs_end_bb == nb2.old
      merge_bb == GetCurrentBasicBlock(nb2.fb)
      isAnd == node.op = "And"
      \* IRBuilder<>(lhs_end_bb).CreateCondBr(eb_lhs.GetResultValue(), ...)
      lv == GetResultValue(l, nb2.fb)
      cb == Insert(lv.fb, lhs_end_bb, "condbr", <<lv.v>>, VoidTy,
                   IF isAnd THEN <<rhs_end_bb, merge_bb>> ELSE <<merge_bb, rhs_end_bb>>, <<>>)
      \* IRBuilder<>(rhs_end_bb).CreateBr(merge_bb)
      br == Insert(cb.fb, rhs_end_bb, "br", <<>>, VoidTy, <<merge_bb>>, <<>>)
      \* GetIRBuilder().CreatePHI(...)
      phi == Create(br.fb, "phi", <<>>, GetLLVMType(node.ty))
      phiAt == Len(phi.fb.blocks[phi.fb.cur])
      \* phi->addIncoming(getInt1(isAnd ? 0 : 1), lhs_end_bb)
      \* phi->addIncoming(eb_rhs.GetResultValue(), rhs_end_bb)
      rv == GetResultValue(r, phi.fb)
      done == [rv.fb EXCEPT
                 !.blocks[phi.fb.cur][phiAt].args =
                     <<ConstV(IF isAnd THEN 0 ELSE -1, IntTy(1)), rv.v>>,
                 !.blocks[phi.fb.cur][phiAt].inc = <<lhs_end_bb, rhs_end_bb>>,
                 !.logical = Append(@,
                     [op |-> node.op, lhs_end_bb |-> lhs_end_bb, rhs_end_bb |-> rhs_end_bb,
                      merge_bb |-> merge_bb, rhs_bb |-> GetCurrentBasicBlock(nb1.fb),
                      rhsFrom |-> nb1.fb.next, rhsTo |-> r.fb.next,
                      rhsLoad |-> IF rv.fb.next > phi.fb.next THEN rv.v.id ELSE 0,
                      phi |-> phi.v.id, condbr |-> cb.v.id])]
  IN RetValid(l.asserted \/ r.asserted \/ ~bothBoolean, Null, phi.v, done)

\* TargetFragmentBuilder: the channel operations of the target, each a call
\* the target emits with the given IRBuilder.
BuildPeek(b, idx, ty) == Create(b, "peek", <<idx>>, ty)
BuildPop(b, ty) == Create(b, "pop", <<>>, ty)

\* A lowerer that refuses a peek whose index is not an integer literal.
VisitPeekExpression_ConstantIndexOnly(node, b) ==
  LET i == Accept(node.kids[1], b) IN
  IF ~i.ok \/ ~IsValid(i) THEN Ret(FALSE, i.asserted, Null, Null, i.fb) ELSE
  IF node.kids[1].kind # "IntegerLiteral" THEN Ret(FALSE, i.asserted, Null, Null, i.fb) ELSE
  LET iv == GetResultValue(i, i.fb)
      pk == BuildPeek(iv.fb, iv.v, GetLLVMType(node.ty))
  IN RetValid(i.asserted \/ ~IsInt(node.kids[1].ty), Null, pk.v, pk.fb)

VisitPeekExpression(node, b) ==
  LET i == Accept(node.kids[1], b) IN
  IF ~i.ok \/ ~IsValid(i) THEN Ret(FALSE, i.asserted, Null, Null, i.fb) ELSE
  LET iv == GetResultValue(i, i.fb)
      pk == BuildPeek(iv.fb, iv.v, GetLLVMType(node.ty))
  IN RetValid(i.asserted \/ ~IsInt(node.kids[1].ty), Null, pk.v, pk.fb)

VisitPopExpression(node, b) ==
  LET pp == BuildPop(b, GetLLVMType(node.ty))
  IN RetValid(FALSE, Null, pp.v, pp.fb)

\* The argument loop of Visit(CallExpression): state after the first n
\* arguments, or the failure of one of them.
RECURSIVE CallArgs(_, _, _)
CallArgs(args, n, b) ==
  IF n = 0 THEN [ok |-> TRUE, asserted |-> FALSE, vals |-> <<>>, fb |-> b] ELSE
  LET prev == CallArgs(args, n - 1, b) IN
  IF ~prev.ok THEN prev ELSE
  LET a == Accept(args[n], prev.fb) IN
  IF ~a.ok \/ ~IsValid(a)
    THEN [ok |-> FALSE, asserted |-> prev.asserted \/ a.asserted, vals |-> <<>>, fb |-> a.fb]
    ELSE LET av == GetResultValue(a, a.fb)
         IN [ok |-> TRUE, asserted |-> prev.asserted \/ a.asserted,
             vals |-> Append(prev.vals, av.v), fb |-> av.fb]

VisitCallExpression(node, b) ==
  LET ps == CallArgs(node.kids, Len(node.kids), b) IN
  IF ~ps.ok THEN Ret(FALSE, ps.asserted, Null, Null, ps.fb) ELSE
  LET c == Create(ps.fb, "call", <<ArgV(node.val, LabelTy)>> \o ps.vals, GetLLVMType(node.ty))
  IN RetValid(ps.asserted, Null, c.v, c.fb)

\* 2^n for small n.
RECURSIVE Pow2(_)
Pow2(n) == IF n = 0 THEN 1 ELSE 2 * Pow2(n - 1)

\* CastInst::CreateIntegerCast: the opcode of an integer-to-integer cast.
IntegerCastOpcode(srcBits, dstBits, isSigned) ==
  IF srcBits = dstBits THEN "bitcast"
  ELSE IF srcBits > dstBits THEN "trunc"
  ELSE IF isSigned THEN "sext" ELSE "zext"

\* CastInst::getCastOpcode for the int<->float pairs that reach it.
getCastOpcode(srcTy, srcIsSigned, dstTy, dstIsSigned) ==
  IF dstTy.k = "int"
    THEN IF srcTy.k = "int"
           THEN IntegerCastOpcode(srcTy.w, dstTy.w, srcIsSigned)
           ELSE IF dstIsSigned THEN "fptosi" ELSE "fptoui"
    ELSE IF srcTy.k = "int"
           THEN IF srcIsSigned THEN "sitofp" ELSE "uitofp"
           ELSE "bitcast"

\* The constant folder's result for a cast of a constant (constants are kept
\* as the signed value of their width; the model's constants are far below
\* 2^30 in magnitude).
FoldCast(opc, x, srcTy, dstTy) ==
  CASE opc = "trunc" ->
         IF dstTy.w > 30 THEN x
         ELSE ((x + Pow2(dstTy.w - 1)) % Pow2(dstTy.w)) - Pow2(dstTy.w - 1)
    [] opc = "zext" -> IF x < 0 THEN x + Pow2(srcTy.w) ELSE x
    [] opc = "uitofp" -> IF x < 0 THEN x + Pow2(srcTy.w) ELSE x
    [] opc \in {"sext", "bitcast", "sitofp", "fptosi"} -> x

\* IRBuilder::CreateCast / CreateIntCast: folded for a constant operand.
CreateCast(b, opc, v, dstTy) ==
  IF v.k = "const"
    THEN [v |-> ConstV(FoldCast(opc, v.id, v.ty, dstTy), dstTy), fb |-> b]
    ELSE Create(b, opc, <<v>>, dstTy)

\* An integer cast that sign-extends every source, 1-bit ones included.
IntCastIsSigned_AlwaysSigned(expr_type) == TRUE

\* bool is_bit_type = (getBitWidth() == 1); CreateIntCast(.., !is_bit_type)
IntCastIsSigned(expr_type) == ~(expr_type.w = 1)

\* bool src_signed = expr_type->isIntegerTy(); dst_signed likewise.
FloatCastOpcode(expr_type, to_type) ==
  getCastOpcode(expr_type, expr_type.k = "int", to_type, to_type.k = "int")

VisitCastExpression(node, b) ==
  LET e == Accept(node.kids[1], b) IN
  IF ~e.ok \/ ~IsValid(e) THEN Ret(FALSE, e.asserted, Null, Null, e.fb) ELSE
  LET to_type == GetLLVMType(node.ty)
      ev == GetResultValue(e, e.fb)
      expr_type == ev.v.ty
  IN
  IF expr_type = to_type THEN RetValid(e.asserted, Null, ev.v, ev.fb) ELSE
  IF expr_type.k = "int" /\ to_type.k = "int"
    THEN LET c == CreateCast(ev.fb,
                    IntegerCastOpcode(expr_type.w, to_type.w, IntCastIsSigned(expr_type)),
                    ev.v, to_type)
         IN RetValid(e.asserted, Null, c.v, c.fb)
  ELSE IF expr_type.k \in {"int", "float"} /\ to_type.k \in {"int", "float"}
    THEN LET c == CreateCast(ev.fb, FloatCastOpcode(expr_type, to_type), ev.v, to_type)
         IN RetValid(e.asserted, Null, c.v, c.fb)
  ELSE Ret(FALSE, TRUE, Null, Null, ev.fb)

\* Node::Accept: the double dispatch to the visitor's overload.
Accept(node, b) ==
  CASE node.kind = "IntegerLiteral" -> VisitIntegerLiteralExpression(node, b)
    [] node.kind = "BooleanLiteral" -> VisitBooleanLiteralExpression(node, b)
    [] node.kind = "FloatLiteral" -> VisitFloatLiteralExpression(node, b)
    [] node.kind = "Identifier" -> VisitIdentifierExpression(node, b)
    [] node.kind = "Index" -> VisitIndexExpression(node, b)
    [] node.kind = "Comma" -> VisitCommaExpression(node, b)
    [] node.kind = "Assignment" -> VisitAssignmentExpression(node, b)
    [] node.kind = "Unary" -> VisitUnaryExpression(node, b)
    [] node.kind = "Binary" -> VisitBinaryExpression(node, b)
    [] node.kind = "Relational" -> VisitRelationalExpression(node, b)
    [] node.kind = "Logical" -> VisitLogicalExpression(node, b)
    [] node.kind = "Peek" -> VisitPeekExpression(node, b)
    [] node.kind = "Pop" -> VisitPopExpression(node, b)
    [] node.kind = "Call" -> VisitCallExpression(node, b)
    [] node.kind = "Cast" -> VisitCastExpression(node, b)
    [] OTHER -> VisitNode(node, b)

\* ------------------------------------------------------------------------
\* The expression statements the lowerer is given: the forms the test
\* programs use (widen.str, sender.str, the autocorrelation splitjoin) over
\* a filter's declarations.
\* ------------------------------------------------------------------------

VarX == Identifier(1, TInt, FALSE)        \* int x
VarSum == Identifier(2, TInt, FALSE)      \* int sum
VarA == Identifier(3, TBoolean, FALSE)    \* boolean a
ParamC == Identifier(4, TBoolean, TRUE)   \* a constant boolean declaration
VarI == Identifier(5, TInt, FALSE)        \* the loop variable i
VarLag == Identifier(6, TInt, TRUE)       \* the constant lag
VarN3 == Identifier(7, TAPInt(3), FALSE)  \* a 3-bit integer
VarF == Identifier(8, TFloat, FALSE)      \* float f
VarBit == Identifier(9, TBit, FALSE)      \* bit b
VarShift == Identifier(10, TInt, FALSE)   \* int[7] shift (element type int)
VarW40 == Identifier(11, TAPInt(40), FALSE) \* a 40-bit integer

CallF == CallExpr(1, TBoolean, <<>>)
CallG == CallExpr(2, TBoolean, <<VarX>>)

BoolOperands ==
  {BooleanLiteral(1), VarA, ParamC, CallF, RelationalExpr(VarX, "Less", IntegerLiteral(8), TInt)}

NestedLogical ==
  {LogicalExpr(CallF, op, r) : op \in {"And", "Or"}, r \in {CallG, VarA}}

LogicalExprs ==
  {LogicalExpr(l, op, r) : l \in BoolOperands, op \in {"And", "Or"}, r \in BoolOperands}
  \cup {LogicalExpr(l, op, r) : l \in {VarA, CallF}, op \in {"And", "Or"}, r \in NestedLogical}
  \cup {LogicalExpr(l, op, r) : l \in NestedLogical, op \in {"And", "Or"}, r \in {VarA, CallF}}

AssignmentExprs ==
  {AssignmentExpr(VarSum, op, r) :
     op \in AssignmentOperators, r \in {PopExpr(TInt), VarX, IntegerLiteral(1)}}
  \cup {AssignmentExpr(IndexExpr(VarShift, IntegerLiteral(0), TInt), "Assign", VarX)}

UnaryExprs ==
  {UnaryExpr(UnaryOperators[i], v, v.ty) : i \in 1..Len(UnaryOperators), v \in {VarX, VarN3}}
  \cup {UnaryExpr("LogicalNot", VarA, TBoolean)}

PeekExprs ==
  {PeekExpr(i, TInt) :
     i \in {IntegerLiteral(0), IntegerLiteral(1), VarI, BinaryExpr(VarI, "Add", VarLag, TInt)}}

CastTargets == {TInt, TBoolean, TBit, TFloat, TAPInt(3), TAPInt(40)}
CastOperands ==
  {VarX, VarA, VarBit, VarF, VarN3, VarW40, IntegerLiteral(5), BooleanLiteral(1), FloatLiteral(2)}
CastExprs == {CastExpr(t, e) : t \in CastTargets, e \in CastOperands}

BinaryExprs ==
  {BinaryExpr(VarX, op, r, TInt) :
     op \in AssignmentOperators \ {"Assign"}, r \in {VarSum, IntegerLiteral(1)}}
  \cup {BinaryExpr(IntegerLiteral(7), op, IntegerLiteral(2), TInt) :
          op \in {"Add", "Subtract", "Multiply", "Divide", "Modulo"}}
  \cup {BinaryExpr(VarF, op, FloatLiteral(2), TFloat) :
          op \in {"Add", "Subtract", "Multiply", "Divide", "Modulo"}}
  \cup {BinaryExpr(PeekExpr(VarI, TInt), "Multiply",
                   PeekExpr(BinaryExpr(VarI, "Add", VarLag, TInt), TInt), TInt)}
  \cup {BinaryExpr(VarI, "Add", r, TInt) :
          r \in {UnaryExpr("PostIncrement", VarI, TInt), AssignmentExpr(VarI, "Assign", VarX),
                 PopExpr(TInt)}}

RelationalOperators == {"Less", "LessEqual", "Greater", "GreaterEqual", "Equal", "NotEqual"}
RelationalExprs ==
  {RelationalExpr(VarI, op, r, TInt) : op \in RelationalOperators, r \in {IntegerLiteral(8), VarX}}
  \cup {RelationalExpr(VarF, op, FloatLiteral(2), TFloat) : op \in RelationalOperators}
  \cup {RelationalExpr(VarI, "Less", UnaryExpr("PreIncrement", VarI, TInt), TInt)}

OtherExprs ==
  {IntegerLiteral(1), BooleanLiteral(0), FloatLiteral(1), VarX, ParamC,
   IndexExpr(VarShift, VarI, TInt), CommaExpr(VarX, PopExpr(TInt)),
   CommaExpr(PopExpr(TInt), VarX), PopExpr(TInt), CallF, CallG, InitializerList(TInt)}

\* ------------------------------------------------------------------------
\* SpecLower: the function builder lowers expression statements one after
\* another into the function; a visit that returns false ends the lowering.
\* ------------------------------------------------------------------------

NoLast == [n |-> 0, node |-> IntegerLiteral(0), pre |-> NewFunctionBuilder,
           ok |-> TRUE, asserted |-> FALSE, ptr |-> Null, val |-> Null]

EmitIdle == fn = <<>> /\ pos = <<0, 0>> /\ out = <<>> /\ cw = <<>> /\ ast = <<>>

InitLower ==
  /\ fb = NewFunctionBuilder
  /\ last = NoLast
  /\ EmitIdle

\* Visit(ExpressionStatement): a fresh ExpressionBuilder accepts the node.
CanLower == last.n < MaxStmts /\ last.ok /\ ~last.asserted

Lowered(node, r) ==
  [n |-> last.n + 1, node |-> node, pre |-> fb, ok |-> r.ok,
   asserted |-> r.asserted, ptr |-> r.ptr, val |-> r.val]

LowerLogical ==
  /\ CanLower
  /\ \E e \in LogicalExprs :
       LET r == Accept(e, fb) IN fb' = r.fb /\ last' = Lowered(e, r)
  /\ UNCHANGED <<fn, pos, out, cw, ast>>

LowerAssignment ==
  /\ CanLower
  /\ \E e \in AssignmentExprs :
       LET r == Accept(e, fb) IN fb' = r.fb /\ last' = Lowered(e, r)
  /\ UNCHANGED <<fn, pos, out, cw, ast>>

LowerUnary ==
  /\ CanLower
  /\ \E e \in UnaryExprs :
       LET r == Accept(e, fb) IN fb' = r.fb /\ last' = Lowered(e, r)
  /\ UNCHANGED <<fn, pos, out, cw, ast>>

LowerPeek ==
  /\ CanLower
  /\ \E e \in PeekExprs :
       LET r == Accept(e, fb) IN fb' = r.fb /\ last' = Lowered(e, r)
  /\ UNCHANGED <<fn, pos, out, cw, ast>>

LowerCast ==
  /\ CanLower
  /\ \E e \in CastExprs :
       LET r == Accept(e, fb) IN fb' = r.fb /\ last' = Lowered(e, r)
  /\ UNCHANGED <<fn, pos, out, cw, ast>>

LowerBinary ==
  /\ CanLower
  /\ \E e \in BinaryExprs :
       LET r == Accept(e, fb) IN fb' = r.fb /\ last' = Lowered(e, r)
  /\ UNCHANGED <<fn, pos, out, cw, ast>>

LowerRelational ==
  /\ CanLower
  /\ \E e \in RelationalExprs :
       LET r == Accept(e, fb) IN fb' = r.fb /\ last' = Lowered(e, r)
  /\ UNCHANGED <<fn, pos, out, cw, ast>>

LowerOther ==
  /\ CanLower
  /\ \E e \in OtherExprs :
       LET r == Accept(e, fb) IN fb' = r.fb /\ last' = Lowered(e, r)
  /\ UNCHANGED <<fn, pos, out, cw, ast>>

NextLower ==
  \/ LowerLogical
  \/ LowerAssignment
  \/ LowerUnary
  \/ LowerPeek
  \/ LowerCast
  \/ LowerBinary
  \/ LowerRelational
  \/ LowerOther

SpecLower == InitLower /\ [][NextLower]_vars

\* ------------------------------------------------------------------------
\* Reading a function: where instructions are, the control-flow graph,
\* dominance.
\* ------------------------------------------------------------------------

Range(q) == {q[i] : i \in 1..Len(q)}

\* Every instruction of the function with its block and position.
Places(b) ==
  UNION {{[bb |-> k, ix |-> i] : i \in 1..Len(b.blocks[k])} : k \in 1..Len(b.blocks)}

InstAt(b, pl) == b.blocks[pl.bb][pl.ix]
PlaceOf(b, id) == CHOOSE pl \in Places(b) : InstAt(b, pl).id = id
Defined(b, id) == \E pl \in Places(b) : InstAt(b, pl).id = id

Successors(b, k) == UNION {Range(b.blocks[k][i].succ) : i \in 1..Len(b.blocks[k])}

\* The blocks reachable from the blocks of `frontier` along paths that do
\* not enter `avoid`.
RECURSIVE Reach(_, _, _, _)
Reach(b, frontier, seen, avoid) ==
  LET new == (frontier \ seen) \ avoid IN
  IF new = {} THEN seen
  ELSE Reach(b, UNION {Successors(b, k) : k \in new}, seen \cup new, avoid)

ReachableFrom(b, k) == Reach(b, {k}, {}, {})
\* The entry block is the block the builder starts in.
EntryBlock == NewFunctionBuilder.cur

\* Block d dominates block k: every path from the entry to k passes d.
BlockDominates(b, d, k) == d = k \/ k \notin Reach(b, {EntryBlock}, {}, {d})

\* The definition at place d dominates a use at place u (the verifier's
\* rule: a use in an unreachable block is dominated by anything).
DefDominatesUse(b, d, u) ==
  LET live == Reach(b, {EntryBlock}, {}, {}) IN
  IF u.bb \notin live THEN TRUE
  ELSE IF d.bb \notin live THEN FALSE
  ELSE IF d.bb = u.bb THEN d.ix < u.ix
  ELSE BlockDominates(b, d.bb, u.bb)

\* Operand j of the instruction at place u is dominated by its definition.
\* The use of a PHI operand is at the end of its incoming block.
OperandDominated(b, u, j) ==
  LET I == InstAt(b, u)
      v == I.args[j]
  IN IF v.k # "inst" THEN TRUE
     ELSE IF ~Defined(b, v.id) THEN FALSE
     ELSE IF I.op = "phi"
       THEN DefDominatesUse(b, PlaceOf(b, v.id),
                            [bb |-> I.inc[j], ix |-> Len(b.blocks[I.inc[j]]) + 1])
       ELSE DefDominatesUse(b, PlaceOf(b, v.id), u)

\* ------------------------------------------------------------------------
\* CWriter (hlstarget/CBackend.cpp): printing a function as C statements.
\* The printed text is kept as a sequence of statements; an operand is kept
\* as the expression tree writeOperand prints.
\* ------------------------------------------------------------------------

EmptyTy == [k |-> "empty", w |-> 0]      \* the empty struct type {}

isEmptyType(ty) == ty.k \in {"empty", "void"}

Terminators == {"br", "condbr", "switch", "indirectbr", "ret", "unreachable"}
isTerminator(I) == I.op \in Terminators
isCmpInst(I) == I.op \in {"icmp", "fcmp"}

\* The uses of the value of instruction id: the operands that name it.
Uses(f, id) ==
  UNION {{<<pl, j>> : j \in {i \in 1..Len(InstAt(f, pl).args) :
                              /\ InstAt(f, pl).args[i].k = "inst"
                              /\ InstAt(f, pl).args[i].id = id}}
         : pl \in Places(f)}

hasOneUse(f, id) == Cardinality(Uses(f, id)) = 1
user_back(f, id) == (CHOOSE u \in Uses(f, id) : TRUE)[1]

\* isInlinableInst without the shortcut for compare instructions.
isInlinableInst_NoCmpShortcut(f, I) ==
  IF \/ isEmptyType(I.ty) \/ ~hasOneUse(f, I.id) \/ isTerminator(I)
     \/ I.op \in {"call", "phi", "load", "va_arg", "insertelement", "insertvalue"}
    THEN FALSE
  ELSE PlaceOf(f, I.id).bb = user_back(f, I.id).bb

isInlinableInst(f, I) ==
  IF isCmpInst(I) THEN TRUE
  ELSE IF \/ isEmptyType(I.ty) \/ ~hasOneUse(f, I.id) \/ isTerminator(I)
          \/ I.op \in {"call", "phi", "load", "va_arg", "insertelement", "insertvalue"}
    THEN FALSE
  ELSE PlaceOf(f, I.id).bb = user_back(f, I.id).bb

\* A fixed-size alloca of the entry block (array allocations carry their
\* size operand).
isDirectAlloca(f, I) ==
  I.op = "alloca" /\ I.args = <<>> /\ PlaceOf(f, I.id).bb = EntryBlock

isAddressExposed(f, v) ==
  \/ v.k = "slot"
  \/ v.k = "inst" /\ Defined(f, v.id) /\ isDirectAlloca(f, InstAt(f, PlaceOf(f, v.id)))

\* IntegerType::isPowerOf2ByteWidth
RECURSIVE isPowerOf2(_)
isPowerOf2(n) == n = 1 \/ (n > 1 /\ n % 2 = 0 /\ isPowerOf2(n \div 2))
isPowerOf2ByteWidth(w) == w > 7 /\ isPowerOf2(w)

\* A 64-bit word, least significant bit first, with its n low bits set.
Ones(n) == [i \in 1..64 |-> IF i <= n THEN 1 ELSE 0]

\* What a shift by a count outside 0..63 can give.
ShiftOutcomes == {"wrap", "zero", "keep"}

\* IntegerType::getBitMask: ~uint64_t(0) >> (64 - w).  For w > 64 the shift
\* count is out of range and the result is whatever the build gives: the
\* count taken modulo 64, zero, or the unshifted word.
getBitMask(w, ub) ==
  IF w <= 64 THEN Ones(w)
  ELSE CASE ub = "wrap" -> Ones(64 - ((64 - w) % 64))
         [] ub = "zero" -> Ones(0)
         [] OTHER -> Ones(64)

\* Conversion of a 64-bit word to `unsigned`: the low 32 bits.
ToUnsigned(bits) == SubSeq(bits, 1, 32)
NonZero(bits) == \E i \in 1..Len(bits) : bits[i] = 1

\* unsigned mask = 0; if integer and !isPowerOf2ByteWidth: mask = getBitMask()
\* (<<>> stands for no mask printed).
TypeMask(ty, ub) ==
  IF ty.k = "int" /\ ~isPowerOf2ByteWidth(ty.w) /\ NonZero(ToUnsigned(getBitMask(ty.w, ub)))
    THEN ToUnsigned(getBitMask(ty.w, ub))
  ELSE <<>>

\* Printed expressions.
Expr(k, id, op, args) == [k |-> k, id |-> id, op |-> op, args |-> args, mask |-> <<>>]
NoExpr == Expr("none", 0, "", <<>>)

RECURSIVE writeOperandInternal(_, _, _)
RECURSIVE writeInstComputationInline(_, _, _)

\* visit(&I) for an instruction printed as an expression.
visit(f, I, ub) ==
  IF I.op = "phi" THEN Expr("phitemp", I.id, "", <<>>)
  ELSE Expr("op", I.id, I.op, [j \in 1..Len(I.args) |-> writeOperandInternal(f, I.args[j], ub)])

writeInstComputationInline(f, I, ub) ==
  [visit(f, I, ub) EXCEPT !.mask = TypeMask(I.ty, ub)]

writeOperandInternal(f, v, ub) ==
  IF /\ v.k = "inst" /\ Defined(f, v.id)
     /\ isInlinableInst(f, InstAt(f, PlaceOf(f, v.id)))
     /\ ~isDirectAlloca(f, InstAt(f, PlaceOf(f, v.id)))
    THEN writeInstComputationInline(f, InstAt(f, PlaceOf(f, v.id)), ub)
  ELSE IF v.k = "const" THEN Expr("const", v.id, "", <<>>)
  ELSE Expr(v.k, v.id, "", <<>>)

\* A value whose address is exposed is printed as (&name).
writeOperand(f, v, ub) ==
  IF isAddressExposed(f, v) THEN Expr("addr", 0, "", <<writeOperandInternal(f, v, ub)>>)
  ELSE writeOperandInternal(f, v, ub)

\* Printed statements: the kind, the block whose printing emitted it, the
\* variable or block it names, its expression, the address of a store and
\* the mask of a store.
Stmt(k, blk, tgt, e) == [k |-> k, blk |-> blk, tgt |-> tgt, e |-> e, p |-> NoExpr, mask |-> <<>>]

isGotoCodeNecessary(f, from, to) == TRUE

\* The PHI nodes a block starts with.
LeadingPHIs(f, s) ==
  LET blk == f.blocks[s]
      n == CHOOSE n \in 0..Len(blk) :
             /\ \A i \in 1..n : blk[i].op = "phi"
             /\ n = Len(blk) \/ blk[n + 1].op # "phi"
  IN SubSeq(blk, 1, n)

getIncomingValueForBlock(PN, cur) ==
  PN.args[CHOOSE j \in 1..Len(PN.inc) : PN.inc[j] = cur /\ \A i \in 1..(j - 1) : PN.inc[i] # cur]

printPHICopiesForSuccessor(f, cur, succ, ub) ==
  LET Printed(PN) ==
        LET IV == getIncomingValueForBlock(PN, cur) IN IV.k # "undef" /\ ~isEmptyType(IV.ty)
      phis == SelectSeq(LeadingPHIs(f, succ), Printed)
  IN [i \in 1..Len(phis) |->
        Stmt("phicopy", cur, phis[i].id,
             writeOperand(f, getIncomingValueForBlock(phis[i], cur), ub))]

printBranchToBlock(f, cur, succ) ==
  IF isGotoCodeNecessary(f, cur, succ) THEN <<Stmt("goto", cur, succ, NoExpr)>> ELSE <<>>

visitBranchInst(f, cur, I, ub) ==
  IF Len(I.succ) = 2
    THEN IF isGotoCodeNecessary(f, cur, I.succ[1])
           THEN <<Stmt("if", cur, 0, writeOperand(f, I.args[1], ub))>>
                \o printPHICopiesForSuccessor(f, cur, I.succ[1], ub)
                \o printBranchToBlock(f, cur, I.succ[1])
                \o (IF isGotoCodeNecessary(f, cur, I.succ[2])
                      THEN <<Stmt("else", cur, 0, NoExpr)>>
                           \o printPHICopiesForSuccessor(f, cur, I.succ[2], ub)
                           \o printBranchToBlock(f, cur, I.succ[2])
                      ELSE <<>>)
                \o <<Stmt("endif", cur, 0, NoExpr)>>
           ELSE <<Stmt("ifnot", cur, 0, writeOperand(f, I.args[1], ub))>>
                \o printPHICopiesForSuccessor(f, cur, I.succ[2], ub)
                \o printBranchToBlock(f, cur, I.succ[2])
                \o <<Stmt("endif", cur, 0, NoExpr)>>
  ELSE printPHICopiesForSuccessor(f, cur, I.succ[1], ub)
       \o printBranchToBlock(f, cur, I.succ[1])

\* The cases of a switch from case i on, printed as a switch statement.
\* Operand 1 is the condition and successor 1 the default destination;
\* case i has value args[i + 1] and successor succ[i + 1].
RECURSIVE SwitchCases(_, _, _, _, _)
SwitchCases(f, cur, I, i, ub) ==
  IF i + 1 > Len(I.succ) THEN <<>>
  ELSE <<Stmt("case", cur, 0, writeOperand(f, I.args[i + 1], ub))>>
       \o printPHICopiesForSuccessor(f, cur, I.succ[i + 1], ub)
       \o (IF isGotoCodeNecessary(f, cur, I.succ[i + 1])
             THEN printBranchToBlock(f, cur, I.succ[i + 1])
             ELSE <<Stmt("break", cur, 0, NoExpr)>>)
       \o SwitchCases(f, cur, I, i + 1, ub)

\* The cases printed as a chain of if statements (a condition wider than
\* 64 bits).
RECURSIVE SwitchIfs(_, _, _, _, _)
SwitchIfs(f, cur, I, i, ub) ==
  IF i + 1 > Len(I.succ) THEN <<>>
  ELSE <<Stmt("if", cur, 0,
              Expr("op", 0, "icmp", <<writeOperand(f, I.args[1], ub),
                                      writeOperand(f, I.args[i + 1], ub)>>))>>
       \o printPHICopiesForSuccessor(f, cur, I.succ[i + 1], ub)
       \o printBranchToBlock(f, cur, I.succ[i + 1])
       \o <<Stmt("else", cur, 0, NoExpr)>>
       \o SwitchIfs(f, cur, I, i + 1, ub)

visitSwitchInst(f, cur, I, ub) ==
  IF Len(I.succ) = 1
    THEN printPHICopiesForSuccessor(f, cur, I.succ[1], ub)
         \o printBranchToBlock(f, cur, I.succ[1])
  ELSE IF I.args[1].ty.w <= 64
    THEN <<Stmt("switch", cur, 0, writeOperand(f, I.args[1], ub)),
           Stmt("default", cur, 0, NoExpr)>>
         \o printPHICopiesForSuccessor(f, cur, I.succ[1], ub)
         \o printBranchToBlock(f, cur, I.succ[1])
         \o SwitchCases(f, cur, I, 1, ub)
         \o <<Stmt("endswitch", cur, 0, NoExpr)>>
  ELSE SwitchIfs(f, cur, I, 1, ub)
       \o printPHICopiesForSuccessor(f, cur, I.succ[1], ub)
       \o printBranchToBlock(f, cur, I.succ[1])
       \o <<Stmt("endif", cur, 0, NoExpr)>>

visitIndirectBrInst(f, cur, I, ub) ==
  <<Stmt("igoto", cur, 0, writeOperand(f, I.args[1], ub))>>

\* No function printed here returns a struct through a pointer argument.
visitReturnInst(f, cur, I, ub) ==
  IF I.args = <<>> /\ cur = Len(f.blocks) /\ f.blocks[cur][1] # I THEN <<>>
  ELSE <<Stmt("return", cur, 0,
              IF I.args # <<>> THEN writeOperand(f, I.args[1], ub) ELSE NoExpr)>>

writeMemoryAccess(f, v, ub) ==
  IF isAddressExposed(f, v) THEN writeOperandInternal(f, v, ub)
  ELSE Expr("deref", 0, "", <<writeOperand(f, v, ub)>>)

\* A store has the stored value as operand 1 and the address as operand 2.
visitStoreInst(f, cur, I, ub) ==
  LET Operand == I.args[1]
      BitMask == IF Operand.ty.k = "int" /\ ~isPowerOf2ByteWidth(Operand.ty.w)
                   THEN ToUnsigned(getBitMask(Operand.ty.w, ub))
                 ELSE ToUnsigned(Ones(0))
  IN [Stmt("store", cur, I.id, writeOperand(f, Operand, ub))
        EXCEPT !.p = writeMemoryAccess(f, I.args[2], ub),
               !.mask = IF NonZero(BitMask) THEN BitMask ELSE <<>>]

\* ------------------------------------------------------------------------
\* The functions printed.
\* ------------------------------------------------------------------------

\* The widest integer stored.
MaxStoreWidth == 128

I32 == IntTy(32)
Void(id, op, args, succ) == Inst(id, op, args, VoidTy, succ, <<>>)

\* A block P that ends in a terminator of the given kind, a block S that
\* starts with nphi PHI nodes, and a second predecessor Q of S.  The value
\* incoming from P is a constant, an instruction of P, an argument or undef.
TerminatorKinds == {"br", "condbr", "switch", "switch0", "switchwide", "indirectbr"}
IncomingKinds == {"const", "inst", "arg", "undef"}

PhiFunction(term, inck, nphi) ==
  LET vP == CASE inck = "const" -> ConstV(5, I32)
              [] inck = "inst" -> InstV(1, I32)
              [] inck = "arg" -> ArgV(1, I32)
              [] OTHER -> UndefV(I32)
      T == CASE term = "br" -> Void(2, "br", <<>>, <<2>>)
             [] term = "condbr" -> Void(2, "condbr", <<ArgV(3, IntTy(1))>>, <<2, 3>>)
             [] term = "switch" -> Void(2, "switch", <<ArgV(4, I32), ConstV(0, I32)>>, <<3, 2>>)
             [] term = "switch0" -> Void(2, "switch", <<ArgV(4, I32)>>, <<2>>)
             [] term = "switchwide" ->
                  Void(2, "switch", <<ArgV(4, IntTy(128)), ConstV(0, IntTy(128))>>, <<3, 2>>)
             [] OTHER -> Void(2, "indirectbr", <<ArgV(5, PtrTy)>>, <<2, 3>>)
      P == (IF inck = "inst"
              THEN <<Inst(1, "add", <<ArgV(1, I32), ArgV(2, I32)>>, I32, <<>>, <<>>)>>
            ELSE <<>>) \o <<T>>
      phi1 == Inst(3, "phi", <<vP, ConstV(7, I32)>>, I32, <<>>, <<1, 3>>)
      phi2 == Inst(4, "phi", <<ConstV(1, I32), ConstV(2, I32)>>, I32, <<>>, <<1, 3>>)
      S == (IF nphi = 2 THEN <<phi1, phi2>> ELSE <<phi1>>)
           \o <<Inst(5, "add", <<InstV(3, I32), IF nphi = 2 THEN InstV(4, I32) ELSE ArgV(1, I32)>>,
                     I32, <<>>, <<>>),
                Void(6, "store", <<InstV(5, I32), SlotV(1, PtrTy)>>, <<>>),
                Void(7, "ret", <<>>, <<>>)>>
      Q == <<Void(8, "br", <<>>, <<2>>)>>
  IN [blocks |-> <<P, S, Q>>]

PhiFunctions ==
  {PhiFunction(t, k, n) : t \in TerminatorKinds, k \in IncomingKinds, n \in 1..2}

\* A store of a w-bit value: an argument, or a sum inlined into the store.
StoreFunction(w, opk) ==
  LET v == IF opk = "inst" THEN InstV(1, IntTy(w)) ELSE ArgV(1, IntTy(w)) IN
  [blocks |-> <<
     (IF opk = "inst"
        THEN <<Inst(1, "add", <<ArgV(1, IntTy(w)), ArgV(2, IntTy(w))>>, IntTy(w), <<>>, <<>>)>>
      ELSE <<>>)
     \o <<Void(2, "store", <<v, SlotV(1, PtrTy)>>, <<>>),
          Void(3, "ret", <<>>, <<>>)>> >>]

StoreFunctions == {StoreFunction(w, k) : w \in 1..MaxStoreWidth, k \in {"arg", "inst"}}

\* An instruction and the blocks of the calls that use its value.
InlineCandidates ==
  {Inst(1, "add", <<ArgV(1, I32), ArgV(2, I32)>>, I32, <<>>, <<>>),
   [Inst(1, "icmp", <<ArgV(1, I32), ArgV(2, I32)>>, IntTy(1), <<>>, <<>>) EXCEPT !.p = "slt"],
   [Inst(1, "fcmp", <<ArgV(6, FloatTy), ArgV(7, FloatTy)>>, IntTy(1), <<>>, <<>>) EXCEPT !.p = "olt"],
   Inst(1, "load", <<SlotV(1, PtrTy)>>, I32, <<>>, <<>>),
   Inst(1, "call", <<ArgV(1, I32)>>, I32, <<>>, <<>>),
   Inst(1, "va_arg", <<ArgV(5, PtrTy)>>, I32, <<>>, <<>>),
   Inst(1, "insertvalue", <<ArgV(8, [k |-> "struct", w |-> 1]), ArgV(1, I32)>>,
        [k |-> "struct", w |-> 1], <<>>, <<>>),
   Inst(1, "insertelement", <<ArgV(9, [k |-> "vector", w |-> 4]), ArgV(1, I32)>>,
        [k |-> "vector", w |-> 4], <<>>, <<>>),
   Inst(1, "extractvalue", <<ArgV(8, [k |-> "struct", w |-> 1])>>, I32, <<>>, <<>>),
   Inst(1, "extractvalue", <<ArgV(8, [k |-> "struct", w |-> 1])>>, EmptyTy, <<>>, <<>>),
   Inst(1, "select", <<ArgV(3, IntTy(1)), ArgV(1, I32), ArgV(2, I32)>>, I32, <<>>, <<>>),
   Inst(1, "sext", <<ArgV(10, IntTy(3))>>, I32, <<>>, <<>>)}

UserBlocks == {<<>>, <<1>>, <<2>>, <<1, 1>>, <<1, 2>>, <<2, 2>>}

InlineFunction(I, users) ==
  LET Calls(k) == [j \in 1..Len(SelectSeq(users, LAMBDA u : u = k)) |->
                     Void(10 * k + j, "call", <<InstV(I.id, I.ty)>>, <<>>)]
  IN [blocks |-> << <<I>> \o Calls(1) \o <<Void(2, "br", <<>>, <<2>>)>>,
                    Calls(2) \o <<Void(3, "ret", <<>>, <<>>)>> >>]

InlineFunctions == {InlineFunction(I, u) : I \in InlineCandidates, u \in UserBlocks}

\* A loop whose PHI nodes exchange their values on the back edge: n PHI
\* nodes, PHI i taking the value of PHI i+1 (the last that of the first).
LoopFunction(n) ==
  LET phi(i) == Inst(1 + i, "phi", <<ArgV(i, I32), InstV(1 + (IF i = n THEN 1 ELSE i + 1), I32)>>,
                     I32, <<>>, <<1, 2>>)
  IN [blocks |-> <<
        <<Void(1, "br", <<>>, <<2>>)>>,
        [i \in 1..n |-> phi(i)]
          \o <<Inst(n + 2, "add", <<InstV(2, I32), InstV(3, I32)>>, I32, <<>>, <<>>),
               Void(n + 3, "store", <<InstV(n + 2, I32), SlotV(1, PtrTy)>>, <<>>),
               Void(n + 4, "condbr", <<ArgV(n + 1, IntTy(1))>>, <<2, 3>>)>>,
        <<Void(n + 5, "ret", <<>>, <<>>)>> >>]

LoopFunctions == {LoopFunction(n) : n \in {2, 3}}

EmitFunctions == PhiFunctions \cup StoreFunctions \cup InlineFunctions \cup LoopFunctions

\* ------------------------------------------------------------------------
\* printFunction: the blocks in order, each instruction in order.
\* ------------------------------------------------------------------------

InitEmit ==
  /\ fb = NewFunctionBuilder
  /\ last = NoLast
  /\ fn \in EmitFunctions
  /\ pos = <<1, 1>>
  /\ out = <<>>
  /\ cw = <<>>
  /\ ast = <<>>

Printing == pos[1] <= Len(fn.blocks)
CurInst == fn.blocks[pos[1]][pos[2]]
AtTerminator == pos[2] = Len(fn.blocks[pos[1]])

\* printBasicBlock, one instruction of the block other than its last.
PrintInstruction ==
  /\ Printing /\ ~AtTerminator /\ CurInst.op # "store"
  /\ \E ub \in ShiftOutcomes :
       out' = IF ~isInlinableInst(fn, CurInst) /\ ~isDirectAlloca(fn, CurInst)
                THEN Append(out, Stmt(IF isEmptyType(CurInst.ty) THEN "eval" ELSE "assign",
                                      pos[1], CurInst.id,
                                      writeInstComputationInline(fn, CurInst, ub)))
              ELSE out
  /\ pos' = <<pos[1], pos[2] + 1>>
  /\ UNCHANGED <<fb, last, fn, cw, ast>>

\* printBasicBlock reaching a store: visitStoreInst prints the statement.
VisitStoreInst ==
  /\ Printing /\ ~AtTerminator /\ CurInst.op = "store"
  /\ \E ub \in ShiftOutcomes :
       out' = Append(out, visitStoreInst(fn, pos[1], CurInst, ub))
  /\ pos' = <<pos[1], pos[2] + 1>>
  /\ UNCHANGED <<fb, last, fn, cw, ast>>

VisitBranchInst ==
  /\ Printing /\ AtTerminator /\ CurInst.op \in {"br", "condbr"}
  /\ \E ub \in ShiftOutcomes : out' = out \o visitBranchInst(fn, pos[1], CurInst, ub)
  /\ pos' = <<pos[1] + 1, 1>>
  /\ UNCHANGED <<fb, last, fn, cw, ast>>

VisitSwitchInst ==
  /\ Printing /\ AtTerminator /\ CurInst.op = "switch"
  /\ \E ub \in ShiftOutcomes : out' = out \o visitSwitchInst(fn, pos[1], CurInst, ub)
  /\ pos' = <<pos[1] + 1, 1>>
  /\ UNCHANGED <<fb, last, fn, cw, ast>>

VisitIndirectBrInst ==
  /\ Printing /\ AtTerminator /\ CurInst.op = "indirectbr"
  /\ \E ub \in ShiftOutcomes : out' = out \o visitIndirectBrInst(fn, pos[1], CurInst, ub)
  /\ pos' = <<pos[1] + 1, 1>>
  /\ UNCHANGED <<fb, last, fn, cw, ast>>

VisitReturnInst ==
  /\ Printing /\ AtTerminator /\ CurInst.op = "ret"
  /\ \E ub \in ShiftOutcomes : out' = out \o visitReturnInst(fn, pos[1], CurInst, ub)
  /\ pos' = <<pos[1] + 1, 1>>
  /\ UNCHANGED <<fb, last, fn, cw, ast>>

NextEmit ==
  \/ PrintInstruction
  \/ VisitStoreInst
  \/ VisitBranchInst
  \/ VisitSwitchInst
  \/ VisitIndirectBrInst
  \/ VisitReturnInst

SpecEmit == InitEmit /\ [][NextEmit]_vars

\* ------------------------------------------------------------------------
\* Claims about the expression lowerer (checked under SpecLower).
\* ------------------------------------------------------------------------

\* The instructions generated for the right-hand side of the logical
\* expression recorded as L: those its visit created and the load of its
\* result.
RhsInstructions(L) ==
  (L.rhsFrom .. (L.rhsTo - 1)) \cup (IF L.rhsLoad # 0 THEN {L.rhsLoad} ELSE {})

\* The successor the conditional branch on lhs takes when lhs decides the
\* result alone (false for &&, true for ||).
ShortCircuitTarget(b, L) ==
  LET cbr == InstAt(b, PlaceOf(b, L.condbr))
  IN IF L.op = "And" THEN cbr.succ[2] ELSE cbr.succ[1]

\* C1: for `lhs && rhs` (`lhs || rhs`) no instruction generated for rhs lies
\* in a block that control reaches when lhs is false (true): the rhs blocks
\* are entered from the block ending lhs only along the other edge.
C1_RhsNotOnShortCircuitPath ==
  \A i \in 1..Len(fb.logical) :
    LET L == fb.logical[i] IN
    \A id \in RhsInstructions(L) :
      Defined(fb, id) =>
        PlaceOf(fb, id).bb \notin ReachableFrom(fb, ShortCircuitTarget(fb, L))

\* C2: every instruction operand of the lowered function is defined by an
\* instruction that dominates the use.
C2_DefinitionsDominateUses ==
  \A u \in Places(fb) : \A j \in 1..Len(InstAt(fb, u).args) : OperandDominated(fb, u, j)

\* C3: every PHI node precedes every non-PHI instruction of its block.
C3_PhiAtBlockEntry ==
  \A k \in 1..Len(fb.blocks) : \A i, j \in 1..Len(fb.blocks[k]) :
    (i < j /\ fb.blocks[k][j].op = "phi") => fb.blocks[k][i].op = "phi"

\* The store a lowered assignment ends with.
LastStore == fb.blocks[fb.cur][Len(fb.blocks[fb.cur])]

C5_UnaryAlwaysLowers ==
  (last.n > 0 /\ last.node.kind = "Unary"
     /\ (IsInt(last.node.ty) \/ IsAPInt(last.node.ty) \/ IsBoolean(last.node.ty))) =>
    last.ok /\ ~last.asserted /\ IsValid(last)

\* The peek rate of the work block being lowered (fir_filter_half).
PeekRate == 2

\* The last instruction of the current block.
LastInst == fb.blocks[fb.cur][Len(fb.blocks[fb.cur])]

\* What the operand of the expression lowered last evaluates to, from the
\* builder the statement started with.
OperandValue ==
  LET r == Accept(last.node.kids[1], last.pre) IN GetResultValue(r, r.fb)

\* C6 (as claimed): every peek that reaches BuildPeek has a compile-time
\* constant index i with 0 <= i < peek rate; any other peek is rejected.
C6_PeekIndexConstantBelowRate ==
  \A u \in Places(fb) :
    InstAt(fb, u).op = "peek" =>
      LET v == InstAt(fb, u).args[1] IN v.k = "const" /\ v.id >= 0 /\ v.id < PeekRate

\* C6 (amended): Visit(PeekExpression) lowers a peek whatever its Int index
\* is: it returns true, passes no failing assertion, and ends with the
\* BuildPeek call on the value of the index expression - the literal for a
\* constant index, the loaded value of the variable for peek(i).
C6_PeekLowersAnyIntIndex ==
  (last.n > 0 /\ last.node.kind = "Peek") =>
    LET idx == last.node.kids[1] IN
    /\ last.ok /\ ~last.asserted
    /\ LastInst.op = "peek"
    /\ LastInst.args = <<OperandValue.v>>
    /\ last.val = InstV(LastInst.id, IntTy(32))
    /\ (idx.kind = "IntegerLiteral" => LastInst.args[1] = ConstV(idx.val, IntTy(32)))
    /\ (idx.kind = "Identifier" =>
          /\ LastInst.args[1].k = "inst"
          /\ Defined(fb, LastInst.args[1].id)
          /\ InstAt(fb, PlaceOf(fb, LastInst.args[1].id)).op = "load"
          /\ InstAt(fb, PlaceOf(fb, LastInst.args[1].id)).args[1].k = "slot"
          /\ InstAt(fb, PlaceOf(fb, LastInst.args[1].id)).args[1].id = idx.val)

\* A peek of the loop variable, as in `peek(i) * peek(i+lag)`, was lowered.
C6_Witness ==
  /\ last.n > 0 /\ last.node.kind = "Peek" /\ last.ok
  /\ last.node.kids[1].kind = "Identifier" /\ ~last.node.kids[1].c
  /\ LastInst.op = "peek" /\ LastInst.args[1].k = "inst"

\* The conversion the cast table gives for a source and a target IR type.
TableConversion(S, T) ==
  IF S.k = "int" /\ T.k = "int"
    THEN IF T.w < S.w THEN "trunc" ELSE IF S.w = 1 THEN "zext" ELSE "sext"
  ELSE IF S.k = "int" THEN "sitofp" ELSE "fptosi"

\* The value a conversion of the table gives a constant x (kept as the
\* signed value of its width).
TableValue(conv, x, T) ==
  CASE conv = "trunc" ->
         CHOOSE y \in (-Pow2(T.w - 1))..(Pow2(T.w - 1) - 1) : (y - x) % Pow2(T.w) = 0
    [] conv = "zext" -> IF x = 0 THEN 0 ELSE 1
    [] OTHER -> x

\* C7: Visit(CastExpression) follows the cast table: equal IR types emit
\* nothing and return the operand; integer to narrower integer truncates;
\* integer to wider integer sign-extends, a 1-bit source zero-extends;
\* integer to float is sitofp; float to integer is fptosi.  (The IRBuilder
\* folds the conversion of a constant operand into a constant.)
C7_CastFollowsTable ==
  (last.n > 0 /\ last.node.kind = "Cast") =>
    LET ov == OperandValue
        S == ov.v.ty
        T == IF last.node.ty.k = "Float" THEN FloatTy ELSE IntTy(last.node.ty.w)
        conv == TableConversion(S, T)
    IN /\ last.ok /\ ~last.asserted
       /\ IF S = T
            THEN fb = ov.fb /\ last.val = ov.v
          ELSE IF ov.v.k = "const"
            THEN fb = ov.fb /\ last.val = ConstV(TableValue(conv, ov.v.id, T), T)
          ELSE /\ fb.blocks[fb.cur] =
                    Append(ov.fb.blocks[fb.cur],
                           Inst(ov.fb.next, conv, <<ov.v>>, T, <<>>, <<>>))
               /\ fb.next = ov.fb.next + 1
               /\ last.val = InstV(ov.fb.next, T)

\* A cast of a 1-bit variable to a wider integer was lowered, as a zext.
C7_Witness ==
  /\ last.n > 0 /\ last.node.kind = "Cast" /\ last.ok
  /\ last.node.kids[1].ty.w = 1 /\ last.node.kids[1].kind = "Identifier"
  /\ last.node.ty.k \in {"Int", "APInt"}
  /\ LastInst.op = "zext"

\* ------------------------------------------------------------------------
\* Claims about the C writer (checked under SpecEmit).
\* ------------------------------------------------------------------------

\* The instructions printBasicBlock has gone past.
Passed(pl) == pl.bb < pos[1] \/ (pl.bb = pos[1] /\ pl.ix < pos[2])

\* The instruction has a statement of its own in the printed text.
HasOwnStatement(I) ==
  \E i \in 1..Len(out) : out[i].k \in {"assign", "eval"} /\ out[i].tgt = I.id

SingleUseInOwnBlock(pl) ==
  /\ Cardinality(Uses(fn, InstAt(fn, pl).id)) = 1
  /\ \A u \in Uses(fn, InstAt(fn, pl).id) : u[1].bb = pl.bb

\* C8 (as claimed): isInlinableInst is true iff the result has exactly one
\* use, that use is in the instruction's block, and the opcode is not a
\* load, call, PHI, terminator or insertelement/insertvalue.
C8_InlinableIffSingleLocalUse ==
  \A pl \in Places(fn) :
    isInlinableInst(fn, InstAt(fn, pl)) <=>
      /\ SingleUseInOwnBlock(pl)
      /\ InstAt(fn, pl).op \notin
           {"load", "call", "phi", "insertelement", "insertvalue"} \cup Terminators

\* C8 (amended): isInlinableInst is true iff the instruction is a compare
\* (whatever its uses), or its type is not empty, its result has exactly one
\* use, that use is in its block and its opcode is not a load, call, PHI,
\* terminator, va_arg or insertelement/insertvalue; and printBasicBlock
\* prints a statement for exactly the instructions that are not inlinable.
C8_InlinableIffCompareOrSingleLocalUse ==
  \A pl \in Places(fn) :
    LET I == InstAt(fn, pl)
        inlinable ==
          \/ I.op \in {"icmp", "fcmp"}
          \/ /\ I.ty.k \notin {"empty", "void"}
             /\ SingleUseInOwnBlock(pl)
             /\ I.op \notin {"load", "call", "phi", "va_arg", "insertelement",
                             "insertvalue"} \cup Terminators
    IN /\ isInlinableInst(fn, I) <=> inlinable
       /\ (Passed(pl) /\ I.op \notin Terminators \cup {"store"}) =>
            (HasOwnStatement(I) <=> ~inlinable)

\* A compare used in two blocks has been printed inside both of its users
\* and has no statement of its own.
C8_Witness ==
  \E pl \in Places(fn) :
    /\ InstAt(fn, pl).op = "icmp"
    /\ Cardinality(Uses(fn, InstAt(fn, pl).id)) = 2
    /\ \E u \in Uses(fn, InstAt(fn, pl).id) : u[1].bb # pl.bb
    /\ ~Printing
    /\ ~HasOwnStatement(InstAt(fn, pl))
    /\ \A u \in Uses(fn, InstAt(fn, pl).id) :
         \E i \in 1..Len(out) :
           /\ out[i].tgt = InstAt(fn, u[1]).id
           /\ out[i].e.args[1].op = "icmp"

\* The printed text of block P assigns the temporary of PHI node PN of S
\* from the value incoming from P and then goes to S.
CopiedBeforeGoto(P, S, PN) ==
  \E i \in 1..Len(out), j \in 1..Len(out) :
    /\ i < j
    /\ out[i].k = "phicopy" /\ out[i].blk = P /\ out[i].tgt = PN.id
    /\ out[i].e = writeOperand(fn, getIncomingValueForBlock(PN, P), "wrap")
    /\ out[j].k = "goto" /\ out[j].blk = P /\ out[j].tgt = S
    /\ \A m \in (i + 1)..(j - 1) : out[m].k = "phicopy" /\ out[m].blk = P

\* The printed text of block S assigns PHI node PN from its temporary before
\* anything but such assignments.
CopiedOnEntry(S, PN) ==
  \E i \in 1..Len(out) :
    /\ out[i].k = "assign" /\ out[i].blk = S /\ out[i].tgt = PN.id
    /\ out[i].e.k = "phitemp" /\ out[i].e.id = PN.id
    /\ \A m \in 1..(i - 1) :
         out[m].blk = S => out[m].k = "assign" /\ out[m].e.k = "phitemp"

PHIsOf(S) == {fn.blocks[S][i] : i \in {i \in 1..Len(fn.blocks[S]) : fn.blocks[S][i].op = "phi"}}

\* C9: for every edge P -> S and every PHI node of S, the text of P's
\* terminator assigns the PHI's temporary from the value incoming along the
\* edge before the goto to S, and the text of S assigns the PHI from its
\* temporary before any other instruction, whatever terminator ends P.
C9_PhiTemporaryAssignedOnEveryEdge ==
  \A P \in 1..Len(fn.blocks) : \A S \in 1..Len(fn.blocks) :
    \A PN \in PHIsOf(S) :
      /\ (P < pos[1] /\ S \in Successors(fn, P)) => CopiedBeforeGoto(P, S, PN)
      /\ S < pos[1] => CopiedOnEntry(S, PN)

\* Bit i of a word kept as a sequence of bits (least significant first).
Bit(bits, i) == IF i <= Len(bits) THEN bits[i] ELSE 0

\* The word is 2^w - 1.
IsAllOnesOfWidth(bits, w) ==
  \A i \in 1..(MaxStoreWidth + 1) : Bit(bits, i) = 1 <=> i <= w

\* C10: the statement printed for a store of a w-bit value, w in 2..128 not
\* a power-of-two number of bytes, masks the stored value with exactly
\* 2^w - 1.
C10_StoreMaskedToWidth ==
  \A i \in 1..Len(out) :
    out[i].k = "store" =>
      LET w == InstAt(fn, PlaceOf(fn, out[i].tgt)).args[1].ty.w IN
      (w >= 2 /\ w <= MaxStoreWidth /\ ~isPowerOf2ByteWidth(w)) =>
        IsAllOnesOfWidth(out[i].mask, w)

\* ------------------------------------------------------------------------
\* The CWriter's printing functions, applied to one type, constant, name or
\* operation (SpecPrint).
\* ------------------------------------------------------------------------

\* The widest integer type the writer names (printTypeString).
MaxIntBits == 128

\* What a printing function wrote, and whether one of its assertions fails
\* on the way (the text is what a build without assertions writes).
Printed(text, asserted) == [text |-> text, asserted |-> asserted]

printSimpleType(ty, isSigned) ==
  CASE ty.k = "void" -> Printed("void", FALSE)
    [] ty.k = "int" ->
         IF ty.w = 1 THEN Printed("bool", FALSE)
         ELSE IF ty.w <= 8 THEN Printed(IF isSigned THEN "int8_t" ELSE "uint8_t", FALSE)
         ELSE IF ty.w <= 16 THEN Printed(IF isSigned THEN "int16_t" ELSE "uint16_t", FALSE)
         ELSE IF ty.w <= 32 THEN Printed(IF isSigned THEN "int32_t" ELSE "uint32_t", FALSE)
         ELSE Printed(IF isSigned THEN "int64_t" ELSE "uint64_t", ~(ty.w <= 64))
    [] ty.k = "float" -> Printed("float", FALSE)
    [] OTHER -> Printed("", TRUE)

\* The type string of a helper name: a prefix and, for integers wider than
\* one bit, the number of bits (u32, i16, bool, f32).
TypeString(prefix, bits, asserted) == [prefix |-> prefix, bits |-> bits, asserted |-> asserted]

printTypeString(ty, isSigned) ==
  CASE ty.k = "void" -> TypeString("void", 0, FALSE)
    [] ty.k = "int" ->
         IF ty.w = 1 THEN TypeString("bool", 0, FALSE)
         ELSE TypeString(IF isSigned THEN "i" ELSE "u", ty.w, ~(ty.w <= MaxIntBits))
    [] ty.k = "float" -> TypeString("f32", 0, FALSE)
    [] OTHER -> TypeString("", 0, TRUE)

\* What is printed: a type, a constant, a name or an operation.
Job(k, ty, isSigned, val, ctx, name, I) ==
  [k |-> k, ty |-> ty, isSigned |-> isSigned, val |-> val, ctx |-> ctx, name |-> name, I |-> I]

NoInst == Inst(0, "", <<>>, VoidTy, <<>>, <<>>)

TypeJobs == {Job("type", IntTy(w), sg, 0, "", <<>>, NoInst) : w \in 1..MaxIntBits, sg \in BOOLEAN}

PrintIdle == pos = <<0, 0>>
PrintDone == pos = <<1, 1>>

PrintSimpleType ==
  /\ PrintIdle /\ fn.k = "type"
  /\ out' = <<printSimpleType(fn.ty, fn.isSigned), printTypeString(fn.ty, fn.isSigned)>>
  /\ pos' = <<1, 1>>
  /\ UNCHANGED <<fb, last, fn, cw, ast>>

\* The C integer type of a width and signedness.
CIntType(n, isSigned) ==
  CASE n = 8 -> IF isSigned THEN "int8_t" ELSE "uint8_t"
    [] n = 16 -> IF isSigned THEN "int16_t" ELSE "uint16_t"
    [] n = 32 -> IF isSigned THEN "int32_t" ELSE "uint32_t"
    [] n = 64 -> IF isSigned THEN "int64_t" ELSE "uint64_t"
    [] OTHER -> IF isSigned THEN "int128_t" ELSE "uint128_t"

\* C14: for a width w in 2..128 printSimpleType writes the C integer type of
\* the smallest width of 8, 16, 32, 64, 128 that is >= w, with the requested
\* signedness, and fails no assertion; width 1 is written as bool.
C14_SimpleTypeRoundsUp ==
  (PrintDone /\ fn.k = "type" /\ fn.ty.w >= 1 /\ fn.ty.w <= MaxIntBits) =>
    /\ ~out[1].asserted
    /\ IF fn.ty.w = 1 THEN out[1].text = "bool"
       ELSE out[1].text =
              CIntType(CHOOSE n \in {8, 16, 32, 64, 128} :
                         n >= fn.ty.w /\ \A m \in {8, 16, 32, 64, 128} : m >= fn.ty.w => n <= m,
                       fn.isSigned)

\* ------------------------------------------------------------------------
\* printConstant for a ConstantInt.
\* ------------------------------------------------------------------------

\* The magnitude of the integer literals printed.
MaxLiteral == 4

\* Printed text is a sequence of tokens: pieces of text, decimal numbers
\* that came from a signed 64-bit value (n), and decimal numbers that came
\* from an unsigned 64-bit word (bits, least significant first).
Tok(s) == [s |-> s, n |-> 0, bits |-> <<>>]
SNum(n) == [s |-> "signed", n |-> n, bits |-> <<>>]
UNum(bits) == [s |-> "unsigned", n |-> 0, bits |-> bits]
Toks(ss) == [i \in 1..Len(ss) |-> Tok(ss[i])]

\* Bit i (1 is the least significant) of the two's complement form of n.
NatBit(n, i) == IF i > 31 THEN 0 ELSE (n \div Pow2(i - 1)) % 2
BitOf(n, i) == IF n >= 0 THEN NatBit(n, i) ELSE 1 - NatBit(-n - 1, i)

\* ConstantInt::get(type, value, isSigned = true): the value in w bits.
APInt(w, n) == [i \in 1..w |-> BitOf(n, i)]

RECURSIVE BitLen(_)
BitLen(n) == IF n = 0 THEN 0 ELSE 1 + BitLen(n \div 2)

RECURSIVE UVal(_, _)
UVal(bits, i) == IF i = 0 THEN 0 ELSE bits[i] + 2 * UVal(bits, i - 1)

\* The value of the low bits of a word, most significant first (the words
\* printed here have fewer than 31 significant bits).
LowVal(bits) ==
  LET m == IF Len(bits) < 30 THEN Len(bits) ELSE 30 IN
  UVal([i \in 1..m |-> bits[m + 1 - i]], m)

\* APInt::getSExtValue, getZExtValue, getMinSignedBits, isMinValue(signed).
getSExtValue(v) ==
  IF v[Len(v)] = 1 THEN -(1 + LowVal([i \in 1..Len(v) |-> 1 - v[i]])) ELSE LowVal(v)
getZExtValue(v) == [i \in 1..64 |-> IF i <= Len(v) THEN v[i] ELSE 0]
getMinSignedBits(v) ==
  LET sign == v[Len(v)]
      top == {i \in 1..Len(v) : v[i] # sign} IN
  IF top = {} THEN 1 ELSE 1 + (CHOOSE i \in top : \A j \in top : j <= i)
isMinSignedValue(v) == v[Len(v)] = 1 /\ \A i \in 1..(Len(v) - 1) : v[i] = 0

Contexts == {"ContextNormal", "ContextCasted", "ContextStatic"}

printConstant(CPV, Context) ==
  LET w == Len(CPV)
      ActiveBits == getMinSignedBits(CPV) IN
  IF w = 1 THEN Toks(<<IF NonZero(getZExtValue(CPV)) THEN "1" ELSE "0">>)
  ELSE IF Context # "ContextNormal" /\ ActiveBits < 64 /\ w < 64 /\ ActiveBits < w
    THEN (IF ActiveBits >= 32 THEN Toks(<<"INT64_C", "(">>) ELSE <<>>)
         \o <<SNum(getSExtValue(CPV))>>
         \o (IF ActiveBits >= 32 THEN Toks(<<")">>) ELSE <<>>)
  ELSE IF w < 32 /\ Context = "ContextNormal"
    THEN Toks(<<"(", "(", printSimpleType(IntTy(w), FALSE).text, ")">>)
         \o (IF isMinSignedValue(CPV) THEN <<UNum(getZExtValue(CPV)), Tok("u")>>
             ELSE <<SNum(getSExtValue(CPV))>>)
         \o Toks(<<")">>)
  ELSE IF w <= 32 THEN <<UNum(getZExtValue(CPV)), Tok("u")>>
  ELSE IF w <= 64 THEN Toks(<<"UINT64_C", "(">>) \o <<UNum(getZExtValue(CPV))>> \o Toks(<<")">>)
  ELSE <<>>

\* The literal n fits in w bits (as a signed value; one bit holds 0 and 1).
Fits(n, w) == IF w = 1 THEN n \in {0, 1} ELSE (w > 30 \/ (-Pow2(w - 1) <= n /\ n < Pow2(w - 1)))

ConstJobs ==
  {j \in {Job("const", IntTy(w), FALSE, n, c, <<>>, NoInst) :
            w \in 1..MaxIntBits, n \in (-MaxLiteral)..MaxLiteral, c \in Contexts} :
     Fits(j.val, j.ty.w)}

PrintConstant ==
  /\ PrintIdle /\ fn.k = "const"
  /\ out' = printConstant(APInt(fn.ty.w, fn.val), fn.ctx)
  /\ pos' = <<1, 1>>
  /\ UNCHANGED <<fb, last, fn, cw, ast>>

\* The numbers among the printed tokens.
Numbers(text) == {i \in 1..Len(text) : text[i].s \in {"signed", "unsigned"}}

\* The low w bits of a printed number.
LowBits(tok, w) ==
  [i \in 1..w |-> IF tok.s = "signed" THEN BitOf(tok.n, i) ELSE Bit(tok.bits, i)]

\* C13: for every width w in 1..128, every literal n that fits in w bits and
\* every context, printConstant writes a non-empty text whose value is
\* congruent to n modulo 2^w.
C13_ConstantPrintedCongruent ==
  (PrintDone /\ fn.k = "const") =>
    /\ out # <<>>
    /\ \/ /\ fn.ty.w = 1
          /\ out = Toks(<<IF fn.val = 1 THEN "1" ELSE "0">>)
       \/ /\ fn.ty.w > 1
          /\ Cardinality(Numbers(out)) = 1
          /\ \A i \in Numbers(out) : LowBits(out[i], fn.ty.w) = [j \in 1..fn.ty.w |-> BitOf(fn.val, j)]

\* ------------------------------------------------------------------------
\* Binary operators and integer compares, and the inline helpers that
\* generateHeader writes for them.
\* ------------------------------------------------------------------------

IntBinaryOps ==
  {"add", "sub", "mul", "udiv", "sdiv", "urem", "srem", "shl", "lshr", "ashr", "and", "or", "xor"}
FloatBinaryOps == {"fadd", "fsub", "fmul", "fdiv", "frem"}
Predicates == {"eq", "ne", "ult", "ule", "ugt", "uge", "slt", "sle", "sgt", "sge"}

\* printTypeName of a simple type; printTypeNameUnaligned is the same.
printTypeName(Ty, isSigned) == printSimpleType(Ty, isSigned).text
printTypeNameUnaligned(Ty, isSigned) == printTypeName(Ty, isSigned)

\* The text of a type string.
TypeStringText(ts) ==
  IF ts.bits = 0 THEN Toks(<<ts.prefix>>) ELSE Toks(<<ts.prefix, ToString(ts.bits)>>)

\* A writer that never asks for a signed cast.
opcodeNeedsCast_NeverSigned(Opcode) ==
  [shouldCast |-> Opcode \in {"add", "sub", "mul", "lshr", "udiv", "urem", "gep", "ashr", "sdiv", "srem"},
   castIsSigned |-> FALSE]

opcodeNeedsCast(Opcode) ==
  CASE Opcode \in {"add", "sub", "mul", "lshr", "udiv", "urem"} ->
         [shouldCast |-> TRUE, castIsSigned |-> FALSE]
    [] Opcode \in {"gep", "ashr", "sdiv", "srem"} ->
         [shouldCast |-> TRUE, castIsSigned |-> TRUE]
    [] OTHER -> [shouldCast |-> FALSE, castIsSigned |-> FALSE]

\* A named value is printed by its name, a constant by printConstant.
Var(v) == [s |-> "var", n |-> v.id, bits |-> <<>>]
writeOperandCtx(Operand, Context) ==
  IF Operand.k = "const" THEN printConstant(APInt(Operand.ty.w, Operand.id), Context)
  ELSE <<Var(Operand)>>

\* BinaryOperator::isNeg, isFNeg, isNot and their arguments.
isConstantAllOnes(v) == v.k = "const" /\ v.ty.k = "int" /\ v.id = (IF v.ty.w = 1 THEN 1 ELSE -1)
isNeg(I) == I.op = "sub" /\ I.args[1].k = "const" /\ I.args[1].id = 0
isFNeg(I) == I.op = "fsub" /\ I.args[1].k = "fpconst" /\ I.args[1].id = "-0.0"
isNot(I) == I.op = "xor" /\ (isConstantAllOnes(I.args[2]) \/ isConstantAllOnes(I.args[1]))
getNegArgument(I) == I.args[2]
getNotArgument(I) == IF isConstantAllOnes(I.args[1]) THEN I.args[2] ELSE I.args[1]

\* The C operator of an opcode.
OperatorText(opcode) ==
  CASE opcode \in {"add", "fadd"} -> " + "
    [] opcode \in {"sub", "fsub"} -> " - "
    [] opcode \in {"mul", "fmul"} -> " * "
    [] opcode \in {"urem", "srem", "frem"} -> " % "
    [] opcode \in {"udiv", "sdiv", "fdiv"} -> " / "
    [] opcode = "and" -> " & "
    [] opcode = "or" -> " | "
    [] opcode = "xor" -> " ^ "
    [] opcode = "shl" -> " << "
    [] opcode \in {"lshr", "ashr"} -> " >> "
    [] OTHER -> "unreachable"

writeInstructionCast(I) ==
  CASE I.op \in {"add", "sub", "mul", "lshr", "urem", "udiv"} ->
         Toks(<<"(", "(", printSimpleType(I.args[1].ty, FALSE).text, ")", "(">>)
    [] I.op \in {"ashr", "srem", "sdiv"} ->
         Toks(<<"(", "(", printSimpleType(I.args[1].ty, TRUE).text, ")", "(">>)
    [] OTHER -> <<>>

writeOperandWithCast(Operand, Opcode) ==
  LET c == opcodeNeedsCast(Opcode) IN
  IF c.shouldCast
    THEN Toks(<<"(", "(", printSimpleType(Operand.ty, c.castIsSigned).text, ")">>)
         \o writeOperandCtx(Operand, "ContextCasted") \o Toks(<<")">>)
  ELSE writeOperandCtx(Operand, "ContextCasted")

isRelational(p) == p \notin {"eq", "ne"}
isSignedPredicate(p) == p \in {"slt", "sle", "sgt", "sge"}

writeOperandWithCastCmp(Operand, Cmp) ==
  IF ~isRelational(Cmp.p) THEN writeOperandCtx(Operand, "ContextNormal")
  ELSE Toks(<<"(", "(", printSimpleType(Operand.ty, isSignedPredicate(Cmp.p)).text, ")">>)
       \o writeOperandCtx(Operand, "ContextNormal") \o Toks(<<")">>)

\* visitBinaryOperator: the text of the operation, and what it adds to
\* InlineOpDeclTypes.
visitBinaryOperator(I) ==
  LET needsCast == I.ty \in {IntTy(8), IntTy(16), FloatTy}
      c == opcodeNeedsCast(I.op)
      VTy == I.args[1].ty
      ts == TypeStringText(printTypeString(VTy, FALSE))
  IN
  IF needsCast \/ c.shouldCast THEN
    IF isNeg(I) THEN
      [text |-> Toks(<<"llvm_neg_">>) \o ts \o Toks(<<"(">>)
                  \o writeOperandCtx(getNegArgument(I), "ContextCasted") \o Toks(<<")">>),
       decl |-> {<<"BinaryNeg", VTy>>}]
    ELSE IF isFNeg(I) THEN
      [text |-> Toks(<<"llvm_neg_">>) \o ts \o Toks(<<"(">>)
                  \o writeOperandCtx(I.args[2], "ContextCasted") \o Toks(<<")">>),
       decl |-> {<<"BinaryNeg", VTy>>}]
    ELSE IF isNot(I) THEN
      [text |-> Toks(<<"llvm_not_">>) \o ts \o Toks(<<"(">>)
                  \o writeOperandCtx(getNotArgument(I), "ContextCasted") \o Toks(<<")">>),
       decl |-> {<<"BinaryNot", VTy>>}]
    ELSE
      [text |-> Toks(<<"llvm_", I.op, "_">>) \o ts \o Toks(<<"(">>)
                  \o writeOperandCtx(I.args[1], "ContextCasted") \o Toks(<<", ">>)
                  \o writeOperandCtx(I.args[2], "ContextCasted") \o Toks(<<")">>),
       decl |-> {<<I.op, VTy>>}]
  ELSE IF isNeg(I) THEN
    [text |-> Toks(<<"-", "(">>) \o writeOperandCtx(getNegArgument(I), "ContextNormal") \o Toks(<<")">>),
     decl |-> {}]
  ELSE IF isFNeg(I) THEN
    [text |-> Toks(<<"-", "(">>) \o writeOperandCtx(I.args[2], "ContextNormal") \o Toks(<<")">>),
     decl |-> {}]
  ELSE IF isNot(I) THEN
    [text |-> Toks(<<"~", "(">>) \o writeOperandCtx(getNotArgument(I), "ContextNormal") \o Toks(<<")">>),
     decl |-> {}]
  ELSE IF I.op = "frem" THEN
    [text |-> Toks(<<IF I.ty = FloatTy THEN "fmodf" ELSE "fmodl", "(">>)
                \o writeOperandCtx(I.args[1], "ContextCasted") \o Toks(<<", ">>)
                \o writeOperandCtx(I.args[2], "ContextCasted") \o Toks(<<")">>),
     decl |-> {}]
  ELSE
    LET cast == writeInstructionCast(I) IN
    [text |-> cast \o writeOperandWithCast(I.args[1], I.op) \o Toks(<<OperatorText(I.op)>>)
                \o writeOperandWithCast(I.args[2], I.op)
                \o (IF cast # <<>> THEN Toks(<<")", ")">>) ELSE <<>>),
     decl |-> {}]

ComparisonText(p) ==
  CASE p = "eq" -> " == "
    [] p = "ne" -> " != "
    [] p \in {"ule", "sle"} -> " <= "
    [] p \in {"uge", "sge"} -> " >= "
    [] p \in {"ult", "slt"} -> " < "
    [] p \in {"ugt", "sgt"} -> " > "
    [] OTHER -> "unreachable"

visitICmpInst(I) ==
  LET cast == writeInstructionCast(I) IN
  [text |-> cast \o writeOperandWithCastCmp(I.args[1], I) \o Toks(<<ComparisonText(I.p)>>)
              \o writeOperandWithCastCmp(I.args[2], I)
              \o (IF cast # <<>> THEN Toks(<<")", ")">>) ELSE <<>>),
   decl |-> {}]

\* generateHeader, "Loop over all simple operations": the helper written for
\* one member of InlineOpDeclTypes.
InlineOpHelper(opcode, OpTy, ub) ==
  LET isSigned == opcodeNeedsCast(opcode).castIsSigned
      ts == TypeStringText(printTypeString(OpTy, FALSE))
      P == Toks(<<printTypeNameUnaligned(OpTy, isSigned)>>)
      mask == TypeMask(OpTy, ub)
      head == Toks(<<"FORCEINLINE ", printTypeName(OpTy, FALSE)>>)
                \o (IF opcode = "BinaryNeg"
                      THEN Toks(<<" llvm_neg_">>) \o ts \o Toks(<<"(">>) \o P \o Toks(<<" a", ")", "{">>)
                    ELSE IF opcode = "BinaryNot"
                      THEN Toks(<<" llvm_not_">>) \o ts \o Toks(<<"(">>) \o P \o Toks(<<" a", ")", "{">>)
                    ELSE Toks(<<" llvm_", opcode, "_">>) \o ts \o Toks(<<"(">>) \o P
                           \o Toks(<<" a", ", ">>) \o P \o Toks(<<" b", ")", "{">>))
      body == Toks(<<"  return ">>)
                \o (IF mask # <<>> THEN Toks(<<"(">>) ELSE <<>>)
                \o (IF opcode = "BinaryNeg" THEN Toks(<<"-", "a">>)
                    ELSE IF opcode = "BinaryNot" THEN Toks(<<"~", "a">>)
                    ELSE IF opcode = "frem"
                      THEN Toks(<<IF OpTy = FloatTy THEN "fmodf" ELSE "fmodl", "(", "a", ", ", "b", ")">>)
                    ELSE Toks(<<"a", OperatorText(opcode), "b">>)
                           \o (IF mask # <<>> THEN Toks(<<")", " & ">>) \o <<UNum(mask)>> ELSE <<>>))
  IN head \o body \o Toks(<<";", "}">>)

\* getCmpPredicateName of the ordered float predicates.
OrderedPredicates == {"oeq", "one", "olt", "ole", "ogt", "oge"}
getCmpPredicateName(P) == P

\* visitFCmpInst: the call of the helper of the predicate.
visitFCmpInst(I) ==
  [text |-> Toks(<<"llvm_fcmp_", getCmpPredicateName(I.p), "(">>)
              \o writeOperandCtx(I.args[1], "ContextCasted") \o Toks(<<", ">>)
              \o writeOperandCtx(I.args[2], "ContextCasted") \o Toks(<<")">>),
   decl |-> {}]

\* visitSelectInst: the call of the helper of the type, and its entry in
\* SelectDeclTypes.
visitSelectInst(I) ==
  [text |-> Toks(<<"llvm_select_">>) \o TypeStringText(printTypeString(I.ty, FALSE)) \o Toks(<<"(">>)
              \o writeOperandCtx(I.args[1], "ContextCasted") \o Toks(<<", ">>)
              \o writeOperandCtx(I.args[2], "ContextCasted") \o Toks(<<", ">>)
              \o writeOperandCtx(I.args[3], "ContextCasted") \o Toks(<<")">>),
   decl |-> {I.ty}]

\* generateHeader, "Loop over all select operations": the helper written for
\* one member of SelectDeclTypes.
SelectHelper(Ty) ==
  Toks(<<"static FORCEINLINE ", printTypeNameUnaligned(Ty, FALSE), " llvm_select_">>)
    \o TypeStringText(printTypeString(Ty, FALSE))
    \o Toks(<<"(", "bool condition, ", printTypeNameUnaligned(Ty, FALSE), " iftrue, ",
              printTypeNameUnaligned(Ty, FALSE), " ifnot", ")", "{",
              "  return condition ? iftrue : ifnot;", "}">>)

\* generateHeader, "LLVM Intrinsic Builtin Function Bodies": the helpers of
\* the float comparisons are compiled out (#if 0), then come the helpers of
\* the members of SelectDeclTypes and of InlineOpDeclTypes.
BuiltinFunctionBodies(w, ub) ==
  (IF w.SelectDeclTypes = {} THEN <<>>
   ELSE <<SelectHelper(CHOOSE t \in w.SelectDeclTypes : TRUE)>>)
  \o (IF w.InlineOpDeclTypes = {} THEN <<>>
      ELSE LET d == CHOOSE x \in w.InlineOpDeclTypes : TRUE IN
           <<InlineOpHelper(d[1], d[2], ub)>>)

\* ------------------------------------------------------------------------
\* Names: CBEMangle, GetValueName, getArrayName.
\* ------------------------------------------------------------------------

\* Characters are their ASCII codes.
IsDigit(c) == 48 <= c /\ c <= 57
IsUpper(c) == 65 <= c /\ c <= 90
IsLower(c) == 97 <= c /\ c <= 122
Underscore == 95

RECURSIVE Concat(_)
Concat(ss) == IF ss = <<>> THEN <<>> ELSE Head(ss) \o Concat(Tail(ss))

\* A mangler that escapes '_' as well.
CBEMangle_EscapeUnderscore(S) ==
  Concat([i \in 1..Len(S) |->
            IF IsDigit(S[i]) \/ IsUpper(S[i]) \/ IsLower(S[i])
              THEN <<S[i]>>
            ELSE <<Underscore, 65 + (S[i] % 16), 65 + ((S[i] \div 16) % 16), Underscore>>])

\* CBEMangle: letters, digits and '_' are kept; any other character c becomes
\* '_', 'A' + (c & 15), 'A' + ((c >> 4) & 15), '_'.
CBEMangle(S) ==
  Concat([i \in 1..Len(S) |->
            IF IsDigit(S[i]) \/ IsUpper(S[i]) \/ IsLower(S[i]) \/ S[i] = Underscore
              THEN <<S[i]>>
            ELSE <<Underscore, 65 + (S[i] % 16), 65 + ((S[i] \div 16) % 16), Underscore>>])

\* sprintf("%x"): lower-case hexadecimal digits, no leading zeros.
HexDigit(d) == IF d < 10 THEN 48 + d ELSE 97 + (d - 10)
RECURSIVE HexText(_)
HexText(n) == IF n < 16 THEN <<HexDigit(n)>> ELSE HexText(n \div 16) \o <<HexDigit(n % 16)>>

\* utostr: decimal digits.
RECURSIVE utostr(_)
utostr(n) == IF n < 10 THEN <<48 + n>> ELSE utostr(n \div 10) \o <<48 + (n % 10)>>

\* The state of a CWriter: numbering counters, id maps, declaration sets.
NewCWriter ==
  [FPConstantMap |-> <<>>, ByValParams |-> {}, AnonValueNumbers |-> <<>>,
   UnnamedStructIDs |-> <<>>, UnnamedFunctionIDs |-> <<>>, TypedefDeclTypes |-> {},
   SelectDeclTypes |-> {}, InlineOpDeclTypes |-> {}, CtorDeclTypes |-> {},
   prototypesToGen |-> {}, FPCounter |-> 0, OpaqueCounter |-> 0,
   NextAnonValueNumber |-> 0, NextAnonStructNumber |-> 0, NextFunctionNumber |-> 0]

\* A map kept as a sequence of <<key, number>> pairs.
Lookup(map, key) ==
  IF \E i \in 1..Len(map) : map[i][1] = key
    THEN map[CHOOSE i \in 1..Len(map) : map[i][1] = key][2]
  ELSE 0

\* GetValueName of a value with the given name (empty for a temporary):
\* the name written, and the writer afterwards.
GetValueName(w, Operand, Name, isGlobal) ==
  LET known == Lookup(w.AnonValueNumbers, Operand)
      No == IF known = 0 THEN w.NextAnonValueNumber + 1 ELSE known
      w2 == IF Name # <<>> THEN w
            ELSE IF known # 0 THEN w
            ELSE [w EXCEPT !.AnonValueNumbers = Append(@, <<Operand, No>>),
                           !.NextAnonValueNumber = No]
      N2 == IF Name = <<>> THEN <<116, 109, 112, 95, 95>> \o utostr(No) ELSE Name
      VarName == Concat([i \in 1..Len(N2) |->
                   IF ~(IsLower(N2[i]) \/ IsUpper(N2[i]) \/ IsDigit(N2[i]) \/ N2[i] = Underscore)
                     THEN <<Underscore>> \o HexText(N2[i]) \o <<Underscore>>
                   ELSE <<N2[i]>>])
  IN IF isGlobal THEN [prefix |-> "", chars |-> CBEMangle(N2), cw |-> w2]
     ELSE [prefix |-> "llvm_cbe_", chars |-> VarName, cw |-> w2]

\* The characters of the C names of the simple types.
TypeNameChars(t) ==
  CASE t = "bool" -> <<98, 111, 111, 108>>
    [] t = "float" -> <<102, 108, 111, 97, 116>>
    [] t = "uint8_t" -> <<117, 105, 110, 116, 56, 95, 116>>
    [] t = "uint16_t" -> <<117, 105, 110, 116, 49, 54, 95, 116>>
    [] t = "uint32_t" -> <<117, 105, 110, 116, 51, 50, 95, 116>>
    [] t = "uint64_t" -> <<117, 105, 110, 116, 54, 52, 95, 116>>
    [] OTHER -> <<>>

ArrTy(elem, n) == [k |-> "array", w |-> n, elem |-> elem]

\* A writer that names the wrapper by the type string of the element (u32).
getArrayName_ElementTypeString(AT) ==
  [prefix |-> "struct l_array_", n |-> AT.w,
   chars |-> <<Underscore, 117>> \o utostr(AT.elem.w)]

\* getArrayName: "struct l_array_" N '_' CBEMangle(printTypeName(element)).
getArrayName(AT) ==
  [prefix |-> "struct l_array_", n |-> AT.w,
   chars |-> <<Underscore>> \o CBEMangle(TypeNameChars(printTypeName(AT.elem, FALSE)))]

\* printArrayDeclaration: the wrapper struct of an array type.
printArrayDeclaration(AT) ==
  [name |-> getArrayName(AT), elem |-> printTypeName(AT.elem, FALSE), len |-> AT.w]

\* printTypeName of an array type: the type is recorded for declaration and
\* its wrapper struct named.
printArrayTypeName(w, AT) ==
  [name |-> getArrayName(AT), cw |-> [w EXCEPT !.TypedefDeclTypes = @ \cup {AT}]]

\* ------------------------------------------------------------------------
\* SpecPrint: one printing job per behaviour.
\* ------------------------------------------------------------------------

\* Characters in names: a letter of each case, a digit, '_', '.', '-', ' '.
NameChars == {97, 90, 48, Underscore, 46, 45, 32}
MaxNameLen == 2
Names == UNION {[1..n -> NameChars] : n \in 0..MaxNameLen}

\* Array lengths of the sender test (shift, bpsk_mod, rcc_taps).
ArrayLengths == {7, 2, 16}

LhsOperands(ty) == {ArgV(1, ty)} \cup {ConstV(n, ty) : n \in {m \in {0, -1} : Fits(m, ty.w)}}
RhsOperands(ty) == {ArgV(2, ty)} \cup {ConstV(n, ty) : n \in {m \in {1, -1} : Fits(m, ty.w)}}
OperandPairs(ty) ==
  {<<a, b>> : a \in LhsOperands(ty), b \in RhsOperands(ty)} \ {p \in LhsOperands(ty) \X RhsOperands(ty) :
                                                                 p[1].k = "const" /\ p[2].k = "const"}

OpJobsOf(ty, ops) ==
  {Job("op", ty, FALSE, 0, "", <<>>, Inst(1, o, ab, ty, <<>>, <<>>)) :
     o \in ops, ab \in OperandPairs(ty)}
OpJobs ==
  UNION {OpJobsOf(IntTy(w), IntBinaryOps) : w \in 1..MaxIntBits}
    \cup {Job("op", FloatTy, FALSE, 0, "", <<>>,
              Inst(1, o, <<ArgV(1, FloatTy), ArgV(2, FloatTy)>>, FloatTy, <<>>, <<>>)) :
            o \in FloatBinaryOps}

CmpJobsOf(ty) ==
  {Job("cmp", ty, FALSE, 0, "", <<>>, [Inst(1, "icmp", ab, IntTy(1), <<>>, <<>>) EXCEPT !.p = p]) :
     p \in Predicates, ab \in OperandPairs(ty)}
CmpJobs == UNION {CmpJobsOf(IntTy(w)) : w \in 1..MaxIntBits}

\* A value by its name, local or global ("" is a temporary).
NameJobs == {Job("name", VoidTy, g, 0, "", nm, NoInst) : g \in BOOLEAN, nm \in Names}

ArrayElements == {IntTy(1), IntTy(8), IntTy(16), IntTy(32), IntTy(64), FloatTy}
ArrayJobs == {Job("array", ArrTy(e, n), FALSE, 0, "", <<>>, NoInst) : e \in ArrayElements, n \in ArrayLengths}

MacroJobs == {Job("macros", VoidTy, FALSE, 0, "", <<>>, NoInst)}

\* Two values of one function by their names: names of one character, the names of
\* the first temporaries (tmp__1, tmp__2) and the escaped form of '.' (_2e_).
LongNames == {<<116, 109, 112, Underscore, Underscore, 49>>, <<116, 109, 112, Underscore, Underscore, 50>>,
              <<Underscore, 50, 101, Underscore>>}
ValueNames == {nm \in Names : Len(nm) <= 1} \cup LongNames
ValuePairJobs ==
  {Job("names", VoidTy, FALSE, 0, "", nn, NoInst) :
     nn \in {p \in ValueNames \X ValueNames : p[1] # p[2] \/ p[1] = <<>>}}

\* The float comparisons of the front end, and selects.
FCmpJobs ==
  {Job("fcmp", FloatTy, FALSE, 0, "", <<>>,
       [Inst(1, "fcmp", <<ArgV(1, FloatTy), ArgV(2, FloatTy)>>, IntTy(1), <<>>, <<>>) EXCEPT !.p = p]) :
     p \in OrderedPredicates}
SelectTypes == {IntTy(1), IntTy(8), IntTy(32), IntTy(64), FloatTy}
SelectJobs ==
  {Job("select", ty, FALSE, 0, "", <<>>,
       Inst(1, "select", <<ArgV(1, IntTy(1)), ArgV(2, ty), ArgV(3, ty)>>, ty, <<>>, <<>>)) :
     ty \in SelectTypes}

PrintJobs ==
  TypeJobs \cup ConstJobs \cup OpJobs \cup CmpJobs \cup NameJobs \cup ArrayJobs \cup MacroJobs
    \cup FCmpJobs \cup SelectJobs \cup ValuePairJobs

InitPrint ==
  /\ fb = NewFunctionBuilder /\ last = NoLast
  /\ fn \in PrintJobs
  /\ pos = <<0, 0>> /\ out = <<>>
  /\ cw = NewCWriter
  /\ ast = <<>>

\* visitBinaryOperator for the instruction: its text, and its entry in
\* InlineOpDeclTypes.
VisitBinaryOperator ==
  /\ PrintIdle /\ fn.k = "op"
  /\ LET r == visitBinaryOperator(fn.I) IN
       /\ out' = <<r.text>>
       /\ cw' = [cw EXCEPT !.InlineOpDeclTypes = @ \cup r.decl]
  /\ pos' = <<1, 0>>
  /\ UNCHANGED <<fb, last, fn, ast>>

\* generateHeader: the helpers of the members of SelectDeclTypes and of
\* InlineOpDeclTypes.
GenerateInlineOps ==
  /\ pos = <<1, 0>> /\ fn.k \in {"op", "fcmp", "select"}
  /\ \E ub \in ShiftOutcomes :
       out' = out \o BuiltinFunctionBodies(cw, ub)
  /\ pos' = <<1, 1>>
  /\ UNCHANGED <<fb, last, fn, cw, ast>>

VisitFCmpInst ==
  /\ PrintIdle /\ fn.k = "fcmp"
  /\ out' = <<visitFCmpInst(fn.I).text>>
  /\ pos' = <<1, 0>>
  /\ UNCHANGED <<fb, last, fn, cw, ast>>

VisitSelectInst ==
  /\ PrintIdle /\ fn.k = "select"
  /\ LET r == visitSelectInst(fn.I) IN
       /\ out' = <<r.text>>
       /\ cw' = [cw EXCEPT !.SelectDeclTypes = @ \cup r.decl]
  /\ pos' = <<1, 0>>
  /\ UNCHANGED <<fb, last, fn, ast>>

VisitICmpInst ==
  /\ PrintIdle /\ fn.k = "cmp"
  /\ out' = <<visitICmpInst(fn.I).text>>
  /\ pos' = <<1, 1>>
  /\ UNCHANGED <<fb, last, fn, cw, ast>>

\* GetValueName of value 1, twice: a temporary keeps its number.
PrintValueName ==
  /\ PrintIdle /\ fn.k = "name"
  /\ LET r1 == GetValueName(cw, 1, fn.name, fn.isSigned)
         r2 == GetValueName(r1.cw, 1, fn.name, fn.isSigned) IN
       /\ out' = <<[prefix |-> r1.prefix, chars |-> r1.chars], [prefix |-> r2.prefix, chars |-> r2.chars]>>
       /\ cw' = r2.cw
  /\ pos' = <<1, 1>>
  /\ UNCHANGED <<fb, last, fn, ast>>

\* GetValueName of the local values 1 and 2, then of value 1 again.
PrintValueNames ==
  /\ PrintIdle /\ fn.k = "names"
  /\ LET r1 == GetValueName(cw, 1, fn.name[1], FALSE)
         r2 == GetValueName(r1.cw, 2, fn.name[2], FALSE)
         r3 == GetValueName(r2.cw, 1, fn.name[1], FALSE) IN
       /\ out' = <<[prefix |-> r1.prefix, chars |-> r1.chars], [prefix |-> r2.prefix, chars |-> r2.chars],
                   [prefix |-> r3.prefix, chars |-> r3.chars]>>
       /\ cw' = r3.cw
  /\ pos' = <<1, 1>>
  /\ UNCHANGED <<fb, last, fn, ast>>

\* An array type named in a declaration of a variable (printTypeName), then
\* declared in the header (printArrayDeclaration).
PrintArrayType ==
  /\ PrintIdle /\ fn.k = "array"
  /\ LET r == printArrayTypeName(cw, fn.ty) IN
       /\ out' = <<r.name, printArrayDeclaration(CHOOSE t \in r.cw.TypedefDeclTypes : TRUE)>>
       /\ cw' = r.cw
  /\ pos' = <<1, 1>>
  /\ UNCHANGED <<fb, last, fn, ast>>

\* generateCompilerSpecificCode: the replacement texts of the LLVM_NAN,
\* LLVM_NANF, LLVM_INF and LLVM_INFF macros, with and without __GNUC__.
CompilerSpecificMacros ==
  <<Toks(<<"__builtin_nan", "(", "NanStr", ")">>),
    Toks(<<"__builtin_nanf", "(", "NanStr", ")">>),
    Toks(<<"__builtin_inf", "(", ")">>),
    Toks(<<"__builtin_inff", "(", ")">>),
    Toks(<<"(", "(", "double", ")", "NAN", ")">>),
    Toks(<<"(", "(", "float", ")", "NAN", ")", ")">>),
    Toks(<<"(", "(", "double", ")", "INFINITY", ")">>),
    Toks(<<"(", "(", "float", ")", "INFINITY", ")">>)>>

GenerateCompilerSpecificCode ==
  /\ PrintIdle /\ fn.k = "macros"
  /\ out' = CompilerSpecificMacros
  /\ pos' = <<1, 1>>
  /\ UNCHANGED <<fb, last, fn, cw, ast>>

NextPrint ==
  \/ PrintSimpleType
  \/ PrintConstant
  \/ VisitBinaryOperator
  \/ GenerateInlineOps
  \/ VisitICmpInst
  \/ VisitFCmpInst
  \/ VisitSelectInst
  \/ PrintValueName
  \/ PrintValueNames
  \/ PrintArrayType
  \/ GenerateCompilerSpecificCode

SpecPrint == InitPrint /\ [][NextPrint]_vars

\* ------------------------------------------------------------------------
\* Claims about the printing functions (SpecPrint).
\* ------------------------------------------------------------------------

SignedCTypes == {"int8_t", "int16_t", "int32_t", "int64_t"}
UnsignedCTypes == {"bool", "uint8_t", "uint16_t", "uint32_t", "uint64_t"}

\* The C types named in a text.
TypesIn(text) == {text[i].s : i \in 1..Len(text)} \cap (SignedCTypes \cup UnsignedCTypes)

\* The position of the first token s of a text (0 if there is none).
IndexOf(text, s) ==
  IF \E i \in 1..Len(text) : text[i].s = s
    THEN CHOOSE i \in 1..Len(text) : text[i].s = s /\ \A j \in 1..(i - 1) : text[j].s # s
  ELSE 0

\* The parameter types of a helper: the type tokens after its first "(".
ParamTypes(helper) ==
  {helper[i].s : i \in (IndexOf(helper, "(") + 1)..Len(helper)} \cap (SignedCTypes \cup UnsignedCTypes)

OpDone == PrintDone /\ fn.k = "op" /\ fn.ty.k = "int"
CmpDone == PrintDone /\ fn.k = "cmp"

\* C11: Add, Sub, Mul, UDiv, URem and LShr work on operands of an unsigned
\* C type; a signed C type appears in the text of an integer operation only
\* for SDiv, SRem, AShr and for an ICmp with a signed relational predicate
\* (and does appear there for operands wider than one bit).
C11_SignednessFollowsTable ==
  /\ (OpDone /\ fn.I.op \in {"add", "sub", "mul", "udiv", "urem", "lshr"}) =>
       /\ Len(out) = 2
       /\ ParamTypes(out[2]) # {}
       /\ ParamTypes(out[2]) \subseteq UnsignedCTypes
  /\ OpDone =>
       ((TypesIn(Concat(out)) \cap SignedCTypes # {}) =>
          fn.I.op \in {"sdiv", "srem", "ashr"})
  /\ (OpDone /\ fn.I.op \in {"sdiv", "srem", "ashr"} /\ fn.ty.w > 1) =>
       /\ Len(out) = 2
       /\ ParamTypes(out[2]) # {}
       /\ ParamTypes(out[2]) \subseteq SignedCTypes
  /\ CmpDone =>
       ((TypesIn(out[1]) \cap SignedCTypes # {}) <=>
          (fn.I.p \in {"slt", "sle", "sgt", "sge"} /\ fn.ty.w > 1))
  /\ (CmpDone /\ fn.I.p \in {"ult", "ule", "ugt", "uge"}) =>
       /\ TypesIn(out[1]) # {}
       /\ TypesIn(out[1]) \subseteq UnsignedCTypes

C11_Witness ==
  /\ OpDone /\ fn.I.op = "sdiv" /\ fn.ty.w = 32
  /\ ParamTypes(out[2]) = {"int32_t"}

\* The type a C operand of the given type is evaluated in: the integer
\* promotions take every type narrower than int to int.
Promoted(t) == IF t \in {"bool", "int8_t", "uint8_t", "int16_t", "uint16_t"} THEN "int" ELSE t

INT_MAX == (Pow2(30) - 1) + Pow2(30)

\* The operation on a and b has a result outside the range of int.
OutOfIntRange(opcode, a, b) ==
  CASE opcode = "add" -> a + b > INT_MAX
    [] opcode = "sub" -> FALSE
    [] opcode = "mul" -> a # 0 /\ b > INT_MAX \div a
    [] opcode = "shl" -> a # 0 /\ Pow2(b) > INT_MAX \div a
    [] OTHER -> FALSE

\* The C type in which the operation of a finished job is evaluated: the
\* promoted parameter type of its helper, or the promoted type of the
\* variables when it is written in place.
EvaluationType ==
  IF Len(out) = 2 THEN Promoted(CHOOSE t \in ParamTypes(out[2]) : TRUE)
  ELSE Promoted(printTypeName(fn.ty, FALSE))

\* The greatest value of w bits, w <= 16.
MaxOfWidth(w) == Pow2(w) - 1

\* C12: for every width w <= 64 the C written for Add, Sub, Mul and Shl of
\* two variables never evaluates in a signed C type an operation whose
\* result is outside that type, whatever the w-bit operand values (a shift
\* count is below w).
C12_NoSignedOverflow ==
  (OpDone /\ fn.ty.w <= 64 /\ fn.I.op \in {"add", "sub", "mul", "shl"}
     /\ fn.I.args[1].k = "arg" /\ fn.I.args[2].k = "arg" /\ EvaluationType = "int") =>
    \A a \in {0, 1, MaxOfWidth(fn.ty.w)} :
      \A b \in (IF fn.I.op = "shl" THEN {0, fn.ty.w - 1} ELSE {0, 1, MaxOfWidth(fn.ty.w)}) :
        ~OutOfIntRange(fn.I.op, a, b)

RECURSIVE Depth(_, _, _, _)
\* The nesting depth after the first i tokens of a text, -1 once a closing
\* token came without its opening one.
Depth(text, i, open, close) ==
  IF i = 0 THEN 0
  ELSE LET d == Depth(text, i - 1, open, close) IN
       IF d < 0 THEN d
       ELSE IF text[i].s = open THEN d + 1
       ELSE IF text[i].s = close THEN d - 1
       ELSE d

Balanced(text) ==
  /\ Depth(text, Len(text), "(", ")") = 0
  /\ Depth(text, Len(text), "{", "}") = 0

\* C16: every text written has balanced parentheses and braces: the text of
\* an operation, each inline helper, each constant, each macro replacement.
C16_TextBalanced ==
  (PrintDone /\ fn.k \in {"op", "cmp", "macros"}) => \A i \in 1..Len(out) : Balanced(out[i])

\* C17 (as stated): in a name derived from an IR name every character that
\* is not a letter or digit is replaced by '_', its hexadecimal code, '_';
\* letters and digits are copied.
C17_NonAlnumEscapedAsHex ==
  (PrintDone /\ fn.k = "name" /\ fn.name # <<>>) =>
    out[1].chars =
      Concat([i \in 1..Len(fn.name) |->
                IF IsDigit(fn.name[i]) \/ IsUpper(fn.name[i]) \/ IsLower(fn.name[i])
                  THEN <<fn.name[i]>>
                ELSE <<Underscore>> \o HexText(fn.name[i]) \o <<Underscore>>])

\* C17 (amended): letters, digits and '_' are copied; any other character is
\* replaced, in a local name by '_', its lower-case hexadecimal code, '_',
\* and in a global name by '_', the letter 'A' + low nibble, the letter
\* 'A' + high nibble, '_'.  Local names get the prefix llvm_cbe_.
C17_EscapeByKind ==
  (PrintDone /\ fn.k = "name" /\ fn.name # <<>>) =>
    /\ out[1].prefix = (IF fn.isSigned THEN "" ELSE "llvm_cbe_")
    /\ out[1].chars =
         Concat([i \in 1..Len(fn.name) |->
                   LET c == fn.name[i] IN
                   IF IsDigit(c) \/ IsUpper(c) \/ IsLower(c) \/ c = Underscore THEN <<c>>
                   ELSE IF fn.isSigned
                     THEN <<Underscore, 65 + (c % 16), 65 + (c \div 16), Underscore>>
                   ELSE <<Underscore, HexDigit(c \div 16), HexDigit(c % 16), Underscore>>])

C17_Witness ==
  /\ PrintDone /\ fn.k = "name" /\ fn.isSigned /\ fn.name = <<46, Underscore>>
  /\ out[1].chars = <<Underscore, 79, 67, Underscore, Underscore>>

\* C18 (as stated): an array of N 32-bit integers is wrapped in
\* struct l_array_<N>_i32, named so at its declaration and at its use.
C18_ArrayNamedByIRType ==
  (PrintDone /\ fn.k = "array" /\ fn.ty.elem = IntTy(32)) =>
    /\ out[1] = [prefix |-> "struct l_array_", n |-> fn.ty.w, chars |-> <<Underscore, 105, 51, 50>>]
    /\ out[2].name = out[1]

\* C18 (amended): an array of N elements is wrapped in a struct named
\* struct l_array_<N>_<C type of the element> (uint32_t for a 32-bit
\* integer), with one field array[N] of the element type; the same name is
\* written at the declaration and at the use.
C18_ArrayNamedByCType ==
  (PrintDone /\ fn.k = "array") =>
    /\ out[1].prefix = "struct l_array_" /\ out[1].n = fn.ty.w
    /\ fn.ty.elem = IntTy(32) => out[1].chars = <<Underscore, 117, 105, 110, 116, 51, 50, Underscore, 116>>
    /\ fn.ty.elem = IntTy(8) => out[1].chars = <<Underscore, 117, 105, 110, 116, 56, Underscore, 116>>
    /\ out[2].name = out[1]
    /\ out[2].len = fn.ty.w

C18_Witness ==
  /\ PrintDone /\ fn.k = "array" /\ fn.ty.elem = IntTy(32) /\ fn.ty.w = 7
  /\ out[2].name.chars = <<Underscore, 117, 105, 110, 116, 51, 50, Underscore, 116>>

\* ------------------------------------------------------------------------
\* A module through the CWriter: runOnFunction for each function with a
\* body, then doFinalization (SpecModule).
\* ------------------------------------------------------------------------

\* Types with their contained types (Type::subtypes).
MTy(k, w, sub) == [k |-> k, w |-> w, sub |-> sub]
MInt == MTy("int", 32, <<>>)
MVoid == MTy("void", 0, <<>>)
\* A named struct (w is its name), the unnamed literal struct (w = 0).
MStruct(name, fields) == MTy("struct", name, fields)
MArray(elem, n) == MTy("array", n, <<elem>>)
MPtr(t) == MTy("ptr", 0, <<t>>)
MFunc(ret, params) == MTy("func", 0, <<ret>> \o params)

\* Written text, as far as declarations and uses go: the forward
\* declaration, declaration or use of a type, global, temporary or FP
\* constant, with the number in its name (0 if the name has none).
Fwd(e, n) == [d |-> "fwd", e |-> e, n |-> n]
Decl(e, n) == [d |-> "decl", e |-> e, n |-> n]
Use(e, n) == [d |-> "use", e |-> e, n |-> n]

\* The value v, computed once, handed to what follows.
Bind(v, K(_)) == CHOOSE r \in {K(x) : x \in {v}} : TRUE

\* unsigned& id = map[key]; if (id == 0) id = ++counter.
NumberIn(w, map, counter, key) ==
  IF Lookup(w[map], key) # 0 THEN [n |-> Lookup(w[map], key), cw |-> w]
  ELSE [n |-> w[counter] + 1,
        cw |-> [w EXCEPT ![map] = Append(@, <<key, w[counter] + 1>>), ![counter] = @ + 1]]

getStructName(w, ST) ==
  IF ST.w # 0 THEN [n |-> 0, cw |-> w]
  ELSE NumberIn(w, "UnnamedStructIDs", "NextAnonStructNumber", ST)

getFunctionName(w, FT) == NumberIn(w, "UnnamedFunctionIDs", "NextFunctionNumber", FT)

\* printTypeName on the writer: the names written and the writer afterwards.
RECURSIVE printTypeNameOf(_, _)
printTypeNameOf(w, Ty) ==
  CASE Ty.k = "func" ->
         Bind(getFunctionName(w, Ty), LAMBDA r : [text |-> <<Use(Ty, r.n)>>, cw |-> r.cw])
    [] Ty.k = "struct" ->
         Bind(getStructName([w EXCEPT !.TypedefDeclTypes = @ \cup {Ty}], Ty),
              LAMBDA r : [text |-> <<Use(Ty, r.n)>>, cw |-> r.cw])
    [] Ty.k = "ptr" -> printTypeNameOf(w, Ty.sub[1])
    [] Ty.k = "array" ->
         Bind(printTypeNameOf([w EXCEPT !.TypedefDeclTypes = @ \cup {Ty}], Ty.sub[1]),
              LAMBDA r : [text |-> <<Use(Ty, 0)>>, cw |-> r.cw])
    [] OTHER -> [text |-> <<>>, cw |-> w]

\* A step Op for each member of a sequence, in order: the texts one after
\* another, the writer threaded through.
RECURSIVE ForEach(_, _, _)
ForEach(Op(_, _), w, xs) ==
  IF xs = <<>> THEN [text |-> <<>>, cw |-> w]
  ELSE Bind(Op(w, Head(xs)), LAMBDA a :
         Bind(ForEach(Op, a.cw, Tail(xs)), LAMBDA b :
           [text |-> a.text \o b.text, cw |-> b.cw]))

\* printTypeName of each type of a sequence, in order.
printTypeNames(w, tys) == ForEach(printTypeNameOf, w, tys)

\* printFunctionProto(Out, FTy, PAL, Name, ArgList): the return type, the
\* name, the parameter types.
printFunctionProto(w, FTy, name) ==
  Bind(printTypeNameOf(w, FTy.sub[1]), LAMBDA r :
    Bind(printTypeNames(r.cw, Tail(FTy.sub)), LAMBDA ps :
      [text |-> r.text \o name \o ps.text, cw |-> ps.cw]))

\* printFunctionDeclaration: typedef <proto named getFunctionName(Ty)>.
printFunctionDeclaration(w, FT) ==
  Bind(getFunctionName(w, FT), LAMBDA id : printFunctionProto(id.cw, FT, <<Decl(FT, id.n)>>))

printStructDeclaration(w, STy) ==
  Bind(getStructName(w, STy), LAMBDA id :
    Bind(printTypeNames(id.cw, STy.sub), LAMBDA fs :
      [text |-> <<Decl(STy, id.n)>> \o fs.text, cw |-> fs.cw]))

printArrayDeclarationOf(w, ATy) ==
  Bind(printTypeNameOf(w, ATy.sub[1]), LAMBDA nm :
    Bind(printTypeNameOf(nm.cw, ATy.sub[1]), LAMBDA el :
      [text |-> <<Decl(ATy, 0)>> \o el.text, cw |-> el.cw]))

\* forwardDeclareStructs, forwardDeclareFunctionTypedefs, printContainedTypes:
\* each visits a type once (TypesPrinted), its contained types first, and
\* then writes what its kind of walk writes for the type.
RECURSIVE TypeWalk(_, _, _)
RECURSIVE TypeWalkAll(_, _, _)
TypeWalk(walk, st, Ty) ==
  IF Ty \in st.printed THEN st
  ELSE Bind(TypeWalkAll(walk, [st EXCEPT !.printed = @ \cup {Ty}], Ty.sub), LAMBDA in :
         Bind(CASE walk = "structs" /\ Ty.k = "struct" ->
                     Bind(getStructName(in.cw, Ty), LAMBDA id :
                       [text |-> <<Fwd(Ty, id.n)>>, cw |-> id.cw])
                [] walk = "functions" /\ Ty.k = "func" -> printFunctionDeclaration(in.cw, Ty)
                [] walk = "contained" /\ Ty.k = "struct" -> printStructDeclaration(in.cw, Ty)
                [] walk = "contained" /\ Ty.k = "array" -> printArrayDeclarationOf(in.cw, Ty)
                [] OTHER -> [text |-> <<>>, cw |-> in.cw],
              LAMBDA r : [text |-> in.text \o r.text, cw |-> r.cw, printed |-> in.printed]))
TypeWalkAll(walk, st, tys) ==
  IF tys = <<>> THEN st
  ELSE Bind(TypeWalk(walk, st, Head(tys)), LAMBDA s1 : TypeWalkAll(walk, s1, Tail(tys)))

forwardDeclareStructs(st, Ty) == TypeWalk("structs", st, Ty)
forwardDeclareFunctionTypedefs(st, Ty) == TypeWalk("functions", st, Ty)
printContainedTypes(st, Ty) == TypeWalk("contained", st, Ty)

\* Things with a name of their own: a global variable, a function, an FP
\* constant.
Global(id) == MTy("global", id, <<>>)
Function(id) == MTy("function", id, <<>>)
FPConstant(id) == MTy("fpconst", id, <<>>)

\* The members of a set in the order of a sequence that holds them all
\* (the iteration order of std::set<Type*> is the order of the addresses).
SetInOrder(S, ord) == SelectSeq(ord, LAMBDA t : t \in S)

\* printModuleTypes, "Function definitions": a typedef for each function
\* type that was given a name, unless printContainedTypes has seen it.
RECURSIVE FunctionTypedefs(_, _)
FunctionTypedefs(st, ids) ==
  IF ids = <<>> THEN st
  ELSE IF Head(ids)[1] \in st.printed THEN FunctionTypedefs(st, Tail(ids))
  ELSE Bind(printFunctionDeclaration(st.cw, Head(ids)[1]), LAMBDA r :
         FunctionTypedefs([text |-> st.text \o r.text, cw |-> r.cw,
                           printed |-> st.printed \cup {Head(ids)[1]}], Tail(ids)))

printModuleTypes(w, ord) ==
  Bind(TypeWalkAll("structs", [text |-> <<>>, cw |-> w, printed |-> {}],
                   SetInOrder(w.TypedefDeclTypes, ord)), LAMBDA a :
    Bind(TypeWalkAll("functions", [text |-> a.text, cw |-> a.cw, printed |-> {}],
                     SetInOrder(a.cw.TypedefDeclTypes, ord)), LAMBDA b :
      Bind(TypeWalkAll("contained", [text |-> b.text, cw |-> b.cw, printed |-> {}],
                       SetInOrder(b.cw.TypedefDeclTypes, ord)), LAMBDA c :
        Bind(FunctionTypedefs(c, c.cw.UnnamedFunctionIDs), LAMBDA d :
          [text |-> d.text, cw |-> d.cw]))))

\* "collect any remaining types": printTypeName of a global into NullOut.
CollectGlobalType(w, G) == [text |-> <<>>, cw |-> printTypeNameOf(w, G.ty).cw]

\* "External Global Variable Declarations".
ExternGlobal(w, G) ==
  IF ~G.isDecl THEN [text |-> <<>>, cw |-> w]
  ELSE Bind(printTypeNameOf(w, G.ty), LAMBDA t :
         [text |-> t.text \o <<Decl(Global(G.id), 0)>>, cw |-> t.cw])

\* "Function Declarations": printFunctionProto(Out, &F) for each function.
FunctionDeclaration(w, F) == printFunctionProto(w, F.FTy, <<Decl(Function(F.id), 0)>>)

declareOneGlobalVariable(w, G) ==
  IF G.isDecl THEN [text |-> <<>>, cw |-> w]
  ELSE Bind(printTypeNameOf(w, G.ty), LAMBDA t :
         [text |-> t.text \o <<Decl(Global(G.id), 0)>>, cw |-> t.cw])

generateHeader(w, M, ord) ==
  Bind(ForEach(CollectGlobalType, w, M.globals), LAMBDA collected :
    Bind(printModuleTypes(collected.cw, ord), LAMBDA types :
      Bind(ForEach(ExternGlobal, types.cw, M.globals), LAMBDA externs :
        Bind(ForEach(FunctionDeclaration, externs.cw, M.functions), LAMBDA protos :
          Bind(ForEach(declareOneGlobalVariable, protos.cw, M.globals), LAMBDA globals :
            [text |-> types.text \o externs.text \o protos.text \o globals.text,
             cw |-> globals.cw])))))

\* A key is in a map, and its value.
InMap(map, key) == \E i \in 1..Len(map) : map[i][1] = key
ValueIn(map, key) == map[CHOOSE i \in 1..Len(map) : map[i][1] = key][2]

\* printFloatingPointConstants(C) for a constant that cannot be printed.
printFloatingPointConstant(w, FPC) ==
  IF InMap(w.FPConstantMap, FPC) THEN [text |-> <<>>, cw |-> w]
  ELSE [text |-> <<Decl(FPConstant(FPC), w.FPCounter)>>,
        cw |-> [w EXCEPT !.FPConstantMap = Append(@, <<FPC, w.FPCounter>>), !.FPCounter = @ + 1]]

\* The declaration of a local value: its type, its name.
LocalDeclaration(w, L) ==
  Bind(printTypeNameOf(w, L.ty), LAMBDA t :
    Bind(GetValueName(t.cw, L.id, L.name, FALSE), LAMBDA nm :
      [text |-> t.text \o <<[d |-> "local", e |-> nm.chars, n |-> 0]>>, cw |-> nm.cw]))

\* printFunction: prototype, local declarations, blocks (the globals and FP
\* constants the instructions name).
printFunction(w, F) ==
  Bind(printFunctionProto(w, F.FTy, <<Decl(Function(F.id), 0)>>), LAMBDA proto :
    Bind(ForEach(LocalDeclaration, proto.cw, F.locals), LAMBDA locals :
      [text |-> proto.text \o locals.text
                  \o [i \in 1..Len(F.uses) |-> Use(Global(F.uses[i]), 0)]
                  \o [i \in 1..Len(F.fp) |->
                        Use(FPConstant(F.fp[i]), ValueIn(locals.cw.FPConstantMap, F.fp[i]))],
       cw |-> locals.cw]))

runOnFunction(w, F) ==
  Bind(ForEach(printFloatingPointConstant, w, F.fp), LAMBDA fp :
    Bind(printFunction(fp.cw, F), LAMBDA f :
      [text |-> fp.text \o f.text, cw |-> f.cw]))

\* A writer whose doFinalization leaves the value numbering as it is.
doFinalization_KeepValueNumbers(w, M, methods, ord) ==
  Bind(generateHeader(w, M, ord), LAMBDA h :
    [header |-> h.text, methods |-> methods, file |-> h.text \o methods,
     cw |-> [h.cw EXCEPT !.FPConstantMap = <<>>, !.ByValParams = {},
                         !.UnnamedStructIDs = <<>>, !.UnnamedFunctionIDs = <<>>,
                         !.TypedefDeclTypes = {}, !.SelectDeclTypes = {}, !.InlineOpDeclTypes = {},
                         !.CtorDeclTypes = {}, !.prototypesToGen = {},
                         !.FPCounter = 0, !.OpaqueCounter = 0,
                         !.NextAnonStructNumber = 0, !.NextFunctionNumber = 0]])

\* doFinalization: the header is generated after the bodies and written
\* before them; then every map is cleared and every counter reset.
doFinalization(w, M, methods, ord) ==
  Bind(generateHeader(w, M, ord), LAMBDA h :
    [header |-> h.text, methods |-> methods, file |-> h.text \o methods,
     cw |-> [h.cw EXCEPT !.FPConstantMap = <<>>, !.ByValParams = {}, !.AnonValueNumbers = <<>>,
                         !.UnnamedStructIDs = <<>>, !.UnnamedFunctionIDs = <<>>,
                         !.TypedefDeclTypes = {}, !.SelectDeclTypes = {}, !.InlineOpDeclTypes = {},
                         !.CtorDeclTypes = {}, !.prototypesToGen = {},
                         !.FPCounter = 0, !.OpaqueCounter = 0, !.NextAnonValueNumber = 0,
                         !.NextAnonStructNumber = 0, !.NextFunctionNumber = 0]])

\* ------------------------------------------------------------------------
\* SpecModule: modules emitted one after another by the same writer.
\* ------------------------------------------------------------------------

\* Modules emitted by one writer.
MaxModules == 2

StructS == MStruct(1, <<MInt>>)
StructU == MStruct(0, <<MInt>>)
Array7 == MArray(MInt, 7)
CallbackTy == MFunc(MVoid, <<MPtr(StructS)>>)

\* The orders in which a set of types can be iterated.
TypeOrders ==
  {<<a, b, c>> : a, b, c \in {StructS, StructU, Array7}} \ 
    {o \in {<<a, b, c>> : a, b, c \in {StructS, StructU, Array7}} :
       o[1] = o[2] \/ o[1] = o[3] \/ o[2] = o[3]}

\* A module: one global; a function f with a parameter, an unnamed local
\* value, possibly an FP constant, and a use of the global; possibly a
\* declaration of an external function g(struct S*).
ModuleOf(p, l, fp, g, gt) ==
  [globals |-> <<[id |-> 1, ty |-> gt, isDecl |-> FALSE]>>,
   functions |->
     <<[id |-> 1, hasBody |-> TRUE, FTy |-> MFunc(MVoid, <<p>>),
        locals |-> <<[id |-> <<1, 1>>, ty |-> l, name |-> <<>>]>>, fp |-> fp, uses |-> <<1>>]>>
     \o (IF g THEN <<[id |-> 2, hasBody |-> FALSE, FTy |-> CallbackTy,
                      locals |-> <<>>, fp |-> <<>>, uses |-> <<>>]>>
         ELSE <<>>)]

Modules ==
  {ModuleOf(p, l, fp, g, gt) :
     p \in {MInt, MPtr(CallbackTy)}, l \in {MInt, MPtr(StructU)}, fp \in {<<>>, <<1>>},
     g \in BOOLEAN, gt \in {MInt, Array7}}

DefinedFunctions(M) == SelectSeq(M.functions, LAMBDA F : F.hasBody)

NoOutput == [header |-> <<>>, methods |-> <<>>, file |-> <<>>, ord |-> <<>>, done |-> FALSE]

InitModule ==
  /\ fb = NewFunctionBuilder /\ last = NoLast
  /\ fn \in Modules
  /\ pos = <<0, 0>>
  /\ out = NoOutput
  /\ cw = NewCWriter
  /\ ast = <<>>

\* runOnFunction for the next function with a body.
RunOnFunction ==
  /\ ~out.done /\ pos[2] < Len(DefinedFunctions(fn))
  /\ \E r \in {runOnFunction(cw, DefinedFunctions(fn)[pos[2] + 1])} :
       /\ out' = [out EXCEPT !.methods = @ \o r.text]
       /\ cw' = r.cw
  /\ pos' = <<pos[1], pos[2] + 1>>
  /\ UNCHANGED <<fb, last, fn, ast>>

DoFinalization ==
  /\ ~out.done /\ pos[2] = Len(DefinedFunctions(fn))
  /\ \E ord \in TypeOrders :
       \E r \in {doFinalization(cw, fn, out.methods, ord)} :
         /\ out' = [header |-> r.header, methods |-> r.methods, file |-> r.file,
                    ord |-> ord, done |-> TRUE]
         /\ cw' = r.cw
  /\ pos' = <<pos[1] + 1, 0>>
  /\ UNCHANGED <<fb, last, fn, ast>>

\* doInitialization for the next module.
DoInitialization ==
  /\ out.done /\ pos[1] < MaxModules
  /\ fn' \in Modules
  /\ out' = NoOutput
  /\ UNCHANGED <<fb, last, pos, cw, ast>>

NextModule ==
  \/ RunOnFunction
  \/ DoFinalization
  \/ DoInitialization

SpecModule == InitModule /\ [][NextModule]_vars

\* What the writer writes for a module when it is the first it emits.
EmittedFirst(M, ord) ==
  Bind(ForEach(runOnFunction, NewCWriter, DefinedFunctions(M)), LAMBDA bodies :
    doFinalization(bodies.cw, M, bodies.text, ord))

\* C19: after doFinalization of a module every numbering counter is zero and
\* every id or name map is empty, and the text written for the module is the
\* text written for it by a writer that emitted nothing before.
C19_NumberingResetPerModule ==
  out.done =>
    /\ cw.NextAnonValueNumber = 0 /\ cw.NextAnonStructNumber = 0
    /\ cw.NextFunctionNumber = 0 /\ cw.FPCounter = 0 /\ cw.OpaqueCounter = 0
    /\ cw.AnonValueNumbers = <<>> /\ cw.UnnamedStructIDs = <<>>
    /\ cw.UnnamedFunctionIDs = <<>> /\ cw.FPConstantMap = <<>>
    /\ cw.TypedefDeclTypes = {} /\ cw.SelectDeclTypes = {} /\ cw.InlineOpDeclTypes = {}
    /\ cw.CtorDeclTypes = {} /\ cw.ByValParams = {} /\ cw.prototypesToGen = {}
    /\ out.file = EmittedFirst(fn, out.ord).file

\* A second module has been emitted, with numbered names in it.
C19_Witness ==
  /\ out.done /\ pos[1] = 2
  /\ \E i \in 1..Len(out.file) : out.file[i].d = "decl" /\ out.file[i].e = CallbackTy /\ out.file[i].n = 1
  /\ \E i \in 1..Len(out.file) : out.file[i].d = "local" /\ out.file[i].e = <<116, 109, 112, 95, 95, 49>>
  /\ cw = NewCWriter

\* The types, function-pointer typedefs and globals that have to be declared.
NeedsDeclaration(e) == e.k \in {"struct", "array", "func", "global"}

\* C15: the file is the header followed by the bodies, and every struct,
\* array wrapper, function-pointer typedef and global named in it is
\* declared (or forward declared) at an earlier position.
C15_DeclaredBeforeUse ==
  out.done =>
    /\ out.file = out.header \o out.methods
    /\ \A i \in 1..Len(out.file) :
         (out.file[i].d = "use" /\ NeedsDeclaration(out.file[i].e)) =>
           \E j \in 1..(i - 1) :
             out.file[j].d \in {"decl", "fwd"} /\ out.file[j].e = out.file[i].e


\* ------------------------------------------------------------------------
\* Executing the lowered function: the operands of a logical expression are
\* given boolean values (1 true, 0 false) and control runs from the entry
\* block.  A value that is read before any instruction defined it, and a PHI
\* entered from a block it has no incoming value for, are undefined (2).
\* ------------------------------------------------------------------------

Undefined == 1 + 1

\* The values of the operands: the variable a, the constant c, the results
\* of f() and g(x), the outcome of the comparison.
Valuations == [a : {0, 1}, c : {0, 1}, f : {0, 1}, g : {0, 1}, cmp : {0, 1}]

\* What the source expression means: && is AND and || is OR of the operand
\* values.
RECURSIVE Meaning(_, _)
Meaning(node, val) ==
  CASE node.kind = "Logical" ->
         Bind(Meaning(node.kids[1], val), LAMBDA l :
           Bind(Meaning(node.kids[2], val), LAMBDA r :
             IF node.op = "And" THEN l * r ELSE l + r - l * r))
    [] node.kind = "BooleanLiteral" -> IF node.val # 0 THEN 1 ELSE 0
    [] node.kind = "Identifier" -> IF node.c THEN val.c ELSE val.a
    [] node.kind = "Call" -> IF node.val = CallF.val THEN val.f ELSE val.g
    [] OTHER -> val.cmp

\* The value of an operand when control is at an instruction that uses it.
ValueAt(v, val, env) ==
  CASE v.k = "const" -> IF v.id # 0 THEN 1 ELSE 0
    [] v.k = "inst" -> env[v.id]
    [] v.k = "arg" -> val.c
    [] OTHER -> Undefined

\* The result of a non-terminator instruction entered from block prev.
Result(I, val, env, prev) ==
  CASE I.op = "load" -> IF I.args[1] = GetVariable(VarA.val, FALSE, VarA.ty) THEN val.a ELSE 0
    [] I.op = "call" -> IF I.args[1].id = CallF.val THEN val.f ELSE val.g
    [] I.op = "icmp" -> val.cmp
    [] I.op = "phi" ->
         IF \E i \in 1..Len(I.inc) : I.inc[i] = prev
           THEN ValueAt(I.args[CHOOSE i \in 1..Len(I.inc) : I.inc[i] = prev], val, env)
           ELSE Undefined
    [] OTHER -> 0

\* Control at instruction ix of block bb, entered from prev: the values of
\* the instructions when control leaves the function (the end of a block
\* without terminator) or stops at a branch on an undefined condition.
RECURSIVE Run(_, _, _, _, _, _, _)
Run(b, val, bb, prev, ix, env, fuel) ==
  IF ix > Len(b.blocks[bb]) \/ fuel = 0 THEN env
  ELSE LET I == b.blocks[bb][ix] IN
       CASE I.op = "br" -> Run(b, val, I.succ[1], bb, 1, env, fuel - 1)
         [] I.op = "condbr" ->
              Bind(ValueAt(I.args[1], val, env), LAMBDA cond :
                IF cond = Undefined THEN env
                ELSE Run(b, val, I.succ[IF cond = 1 THEN 1 ELSE 2], bb, 1, env, fuel - 1))
         [] OTHER ->
              Bind([env EXCEPT ![I.id] = Result(I, val, env, prev)], LAMBDA e :
                Run(b, val, bb, prev, ix + 1, e, fuel - 1))

\* The value instruction id has after the function b ran under val.
Executed(b, val, id) ==
  Run(b, val, EntryBlock, 0, 1, [i \in 1..(b.next - 1) |-> Undefined], b.next + Len(b.blocks))[id]

Predecessors(b, k) == {j \in 1..Len(b.blocks) : k \in Successors(b, j)}

\* The successor the conditional branch on lhs takes when rhs has to be
\* evaluated (true for &&, false for ||).
EvaluateRhsTarget(b, L) ==
  LET cbr == InstAt(b, PlaceOf(b, L.condbr))
  IN IF L.op = "And" THEN cbr.succ[1] ELSE cbr.succ[2]

\* The statement lowered last is a logical expression.
LoweredLogical == last.n > 0 /\ last.ok /\ last.node.kind = "Logical"

\* C20: the PHI of `lhs && rhs` (`lhs || rhs`) has, for all values of the
\* operands, the value lhs AND rhs (lhs OR rhs) when the function is
\* executed; the incoming blocks of every such PHI are exactly the
\* predecessors of its block; and the edge of the branch on lhs that
\* evaluates rhs leads to the first block of the rhs evaluation, also when
\* rhs is a logical expression.
C20_PhiComputesLogicalOperator ==
  /\ \A i \in 1..Len(fb.logical) :
       LET L == fb.logical[i]
           phi == InstAt(fb, PlaceOf(fb, L.phi))
       IN /\ Range(phi.inc) = Predecessors(fb, PlaceOf(fb, L.phi).bb)
          /\ EvaluateRhsTarget(fb, L) = L.rhs_bb
  /\ LoweredLogical =>
       \A val \in Valuations : Executed(fb, val, last.val.id) = Meaning(last.node, val)


\* ------------------------------------------------------------------------
\* Order of evaluation (checked under SpecLower).
\* ------------------------------------------------------------------------

\* The statement lowered last is a binary or relational expression that
\* produced an instruction.
LoweredOperation ==
  /\ last.n > 0 /\ last.ok /\ last.node.kind \in {"Binary", "Relational"}
  /\ last.val.k = "inst"

\* The visits of its two operands, in the order the handler makes them.
LeftVisit == Accept(last.node.kids[1], last.pre)
RightVisit == Accept(last.node.kids[2], LeftVisit.fb)

\* The instructions of the right operand: those its visit created and the
\* load of its result.
RightInstructions ==
  LET I == InstAt(fb, PlaceOf(fb, last.val.id)) IN
  (LeftVisit.fb.next .. (RightVisit.fb.next - 1))
    \cup (IF I.args[2].k = "inst" THEN {I.args[2].id} ELSE {})

\* C21: the value of the left operand of a binary or relational expression
\* is read before any instruction of the right operand: the instruction
\* that gives the left value was created before each of them.
C21_LeftOperandReadFirst ==
  LoweredOperation =>
    LET I == InstAt(fb, PlaceOf(fb, last.val.id)) IN
    I.args[1].k = "inst" => \A id \in RightInstructions : I.args[1].id < id


\* ------------------------------------------------------------------------
\* Increment and decrement (checked under SpecLower).
\* ------------------------------------------------------------------------

\* The last three instructions of the current block.
LastThree == SubSeq(fb.blocks[fb.cur], Len(fb.blocks[fb.cur]) - 2, Len(fb.blocks[fb.cur]))

\* The load, the addition or subtraction of 1 and the store that lowering
\* x++, x--, ++x or --x ends with, and the value it yields.
IncrementLowered ==
  LET x == last.node.kids[1]
      slot == GetVariable(x.val, FALSE, x.ty)
      up == last.node.op \in {"PreIncrement", "PostIncrement"}
      post == last.node.op \in {"PostIncrement", "PostDecrement"}
      ld == LastThree[1]
      op == LastThree[2]
      st == LastThree[3]
  IN /\ last.ok /\ ~last.asserted
     /\ Len(fb.blocks[fb.cur]) >= 3
     /\ ld.op = "load" /\ ld.args = <<slot>>
     /\ op.op = (IF up THEN "add" ELSE "sub")
     /\ op.args[1] = InstV(ld.id, ld.ty)
     /\ op.args[2].k = "const" /\ op.args[2].id = 1
     /\ st.op = "store" /\ st.args = <<InstV(op.id, op.ty), slot>>
     /\ last.val = (IF post THEN InstV(ld.id, ld.ty) ELSE InstV(op.id, op.ty))

\* C22: for an Int or APInt variable x of any width, x++ / x-- yields the
\* value x had and stores x+1 / x-1 into the slot of x, ++x / --x stores
\* x+1 / x-1 and yields it; the constant has the IR type of x.
C22_IncrementConstantHasOperandType ==
  (last.n > 0 /\ last.node.kind = "Unary" /\ IsIncrementOp(last.node.op)
     /\ (IsInt(last.node.ty) \/ IsAPInt(last.node.ty))) =>
    /\ IncrementLowered
    /\ LastThree[2].args[2].ty = GetLLVMType(last.node.kids[1].ty)


\* ------------------------------------------------------------------------
\* The comma expression (checked under SpecLower).
\* ------------------------------------------------------------------------

\* C23: lowering `lhs, rhs` evaluates lhs once and then rhs once - the
\* function is the one that a visit of lhs followed by a visit of rhs
\* builds - and the result of the expression is the result (pointer or
\* value) of rhs.
C23_CommaEvaluatesBothYieldsRight ==
  (last.n > 0 /\ last.node.kind = "Comma") =>
    /\ last.ok /\ ~last.asserted
    /\ fb = RightVisit.fb
    /\ last.ptr = RightVisit.ptr
    /\ last.val = RightVisit.val


\* ------------------------------------------------------------------------
\* AST::NodeList.  The parser owns the lists of Lists; a Node* is null, a
\* node that is not a list, or one of the lists.  No list is longer than
\* MaxNodes.
\* ------------------------------------------------------------------------

MaxNodes == 3
Lists == {1, 2}

NullNode == [k |-> "null", id |-> 0]
Leaf(n) == [k |-> "node", id |-> n]
ListNode(i) == [k |-> "list", id |-> i]
Leaves == {Leaf(1), Leaf(2)}

\* The m_nodes of every list after NodeList() = default.
NewNodeLists == [i \in Lists |-> <<>>]

\* A list that pushes whatever it is given.
AddNode_PushAny(h, this, li) == [h EXCEPT ![this] = Append(@, li)]

\* NodeList::AddNode on the lists h.
RECURSIVE AddNode(_, _, _)
AddNode(h, this, li) ==
  IF li = NullNode THEN h
  ELSE IF li.k = "list"
    THEN LET RECURSIVE Each(_, _)
             Each(g, i) ==
               IF i > Len(h[li.id]) THEN g
               ELSE Bind(AddNode(g, this, h[li.id][i]), LAMBDA g1 : Each(g1, i + 1))
         IN Each(h, 1)
  ELSE [h EXCEPT ![this] = Append(@, li)]

\* NodeList::PrependNode on the lists h.
PrependNode(h, this, node) ==
  IF node = NullNode THEN h
  ELSE IF node.k = "list"
    THEN IF h[node.id] # <<>> THEN [h EXCEPT ![this] = h[node.id] \o @] ELSE h
  ELSE [h EXCEPT ![this] = <<node>> \o @]

\* The arguments of a call on list `this`: null, a node, another list.
NodeArguments(this) ==
  {NullNode} \cup Leaves \cup {ListNode(i) : i \in Lists \ {this}}

NoCall == [op |-> "", this |-> 0, arg |-> NullNode]

InitNodeList ==
  /\ fb = NewFunctionBuilder /\ last = NoLast
  /\ fn = <<>> /\ pos = <<0, 0>> /\ out = <<>> /\ cw = <<>>
  /\ ast = [m_nodes |-> NewNodeLists, pre |-> NewNodeLists, call |-> NoCall]

Called(op, this, arg, h) ==
  /\ \A i \in Lists : Len(h[i]) <= MaxNodes
  /\ ast' = [m_nodes |-> h, pre |-> ast.m_nodes, call |-> [op |-> op, this |-> this, arg |-> arg]]
  /\ UNCHANGED <<fb, last, fn, pos, out, cw>>

CallAddNode ==
  \E this \in Lists : \E li \in NodeArguments(this) :
    \E h \in {AddNode(ast.m_nodes, this, li)} : Called("AddNode", this, li, h)

CallPrependNode ==
  \E this \in Lists : \E node \in NodeArguments(this) :
    \E h \in {PrependNode(ast.m_nodes, this, node)} : Called("PrependNode", this, node, h)

NextNodeList ==
  \/ CallAddNode
  \/ CallPrependNode

SpecNodeList == InitNodeList /\ [][NextNodeList]_vars

ArgumentValue(d) == 200 + d
InstructionValue(f, id) ==
  LET I == InstAt(f, PlaceOf(f, id)) IN
  IF I.op = "add" /\ \A j \in 1..Len(I.args) : I.args[j].k = "arg"
    THEN ArgumentValue(I.args[1].id) + ArgumentValue(I.args[2].id)
    ELSE 100 + id
StaleValue(id) == 300 + id

InstructionIds(f) == {InstAt(f, pl).id : pl \in Places(f)}

\* The value of an IR operand at the end of P.
IRValue(f, v) ==
  CASE v.k = "const" -> v.id
    [] v.k = "arg" -> ArgumentValue(v.id)
    [] v.k = "inst" -> InstructionValue(f, v.id)
    [] OTHER -> 0

\* The value of a printed expression in a C state.
RECURSIVE EvalC(_, _)
EvalC(e, st) ==
  CASE e.k = "const" -> e.id
    [] e.k = "arg" -> ArgumentValue(e.id)
    [] e.k = "inst" -> st.real[e.id]
    [] e.k = "phitemp" -> st.temp[e.id]
    [] e.k = "op" /\ e.op = "add" -> EvalC(e.args[1], st) + EvalC(e.args[2], st)
    [] OTHER -> 0

\* The C state after the statements, executed in order.
RECURSIVE ExecC(_, _)
ExecC(stmts, st) ==
  IF stmts = <<>> THEN st
  ELSE Bind(EvalC(Head(stmts).e, st), LAMBDA x :
         Bind(IF Head(stmts).k = "phicopy" THEN [st EXCEPT !.temp[Head(stmts).tgt] = x]
              ELSE IF Head(stmts).k = "assign" THEN [st EXCEPT !.real[Head(stmts).tgt] = x]
              ELSE st,
              LAMBDA st1 : ExecC(Tail(stmts), st1)))

\* The statements control executes when it leaves P for S: those between
\* the branch and `goto S`, which are the PHI copies (nothing is printed for
\* the targets of an indirectbr).
RECURSIVE CopiesBefore(_, _)
CopiesBefore(P, j) ==
  IF j = 0 \/ out[j].k # "phicopy" \/ out[j].blk # P THEN <<>>
  ELSE Append(CopiesBefore(P, j - 1), out[j])

EdgeStatements(P, S) ==
  IF \E j \in 1..Len(out) : out[j].k = "goto" /\ out[j].blk = P /\ out[j].tgt = S
    THEN CopiesBefore(P, (CHOOSE j \in 1..Len(out) :
                             out[j].k = "goto" /\ out[j].blk = P /\ out[j].tgt = S) - 1)
    ELSE <<>>

\* The statements printed for the PHI nodes of S.
PhiStatements(S) ==
  SelectSeq(out, LAMBDA s : s.blk = S /\ s.k = "assign" /\ s.e.k = "phitemp")

\* The C state after control went from the end of P to behind the PHI
\* statements of S.
AfterEdge(P, S) ==
  ExecC(EdgeStatements(P, S) \o PhiStatements(S),
        [real |-> [id \in InstructionIds(fn) |-> InstructionValue(fn, id)],
         temp |-> [id \in InstructionIds(fn) |-> StaleValue(id)]])

\* The edges P -> S of the function that enter a block with PHI nodes.
PhiEdges ==
  {e \in (1..Len(fn.blocks)) \X (1..Len(fn.blocks)) :
     /\ e[2] \in Range(fn.blocks[e[1]][Len(fn.blocks[e[1]])].succ)
     /\ LeadingPHIs(fn, e[2]) # <<>>}

\* C25: after control takes an edge P -> S every PHI variable of S holds
\* the value its incoming operand had at the end of P, also when that
\* operand is another PHI of S.
C25_PhiCopiesAreParallel ==
  ~Printing =>
    \A e \in PhiEdges :
      LET phis == LeadingPHIs(fn, e[2]) IN
      \A i \in 1..Len(phis) :
        LET IV == getIncomingValueForBlock(phis[i], e[1]) IN
        (IV.k # "undef" /\ ~isEmptyType(IV.ty)) =>
          AfterEdge(e[1], e[2]).real[phis[i].id] = IRValue(fn, IV)


\* ------------------------------------------------------------------------
\* printFunction and printLoop: the blocks of a function and its loops.
\* LoopInfo gives each block its innermost loop (0: none) and each loop
\* its parent loop (0: none) and its header.
\* ------------------------------------------------------------------------

MaxBlocks == 4
LoopIds == {1, 2, 3}

getLoopFor(f, BB) == f.loopOf[BB]
getHeader(f, L) == f.header[L]
getParentLoop(f, L) == f.parent[L]

\* Loop L contains loop M (or is M).
RECURSIVE Contains(_, _, _)
Contains(f, L, M) == M # 0 /\ (M = L \/ Contains(f, L, f.parent[M]))

\* L->getBlocks(): the header first, then the other blocks of the loop and
\* of the loops inside it.
getBlocks(f, L) ==
  <<getHeader(f, L)>>
    \o SelectSeq([b \in 1..f.n |-> b],
                 LAMBDA b : b # getHeader(f, L) /\ Contains(f, L, getLoopFor(f, b)))

\* The loops that exist in f: those that are the innermost loop of a block.
LoopsOf(f) == {f.loopOf[b] : b \in 1..f.n} \ {0}

\* The functions printed: every assignment of up to MaxBlocks blocks to
\* loops nested in each other, each loop with a header of its own.
LoopNests ==
  UNION {UNION {
    {[n |-> n, loopOf |-> lo, parent |-> pa, header |-> he] :
       pa \in {q \in [LoopIds -> LoopIds \cup {0}] :
                 \A L \in LoopIds :
                   /\ q[L] < L
                   /\ q[L] = 0 \/ {L, q[L]} \subseteq Range(lo)},
       he \in {h \in [LoopIds -> 1..n] :
                 \A L \in LoopIds : IF L \in Range(lo) THEN lo[h[L]] = L ELSE h[L] = 1}} :
    lo \in [1..n -> LoopIds \cup {0}]} : n \in 1..MaxBlocks}

Item(k, id) == [k |-> k, id |-> id]

\* A printLoop that prints every block of the loop itself.
printLoop_EveryBlock(f, L) ==
  <<Item("do", L)>> \o [i \in 1..Len(getBlocks(f, L)) |-> Item("block", getBlocks(f, L)[i])]
    \o <<Item("while", L)>>

\* printLoop: `do {`, the blocks whose innermost loop is L and the loops
\* directly inside L (at their header), `} while (1);`.
RECURSIVE printLoop(_, _)
printLoop(f, L) ==
  LET RECURSIVE Body(_)
      Body(i) ==
        IF i > Len(getBlocks(f, L)) THEN <<>>
        ELSE LET BB == getBlocks(f, L)[i]
                 BBLoop == getLoopFor(f, BB)
             IN (IF BBLoop = L THEN <<Item("block", BB)>>
                 ELSE IF BB = getHeader(f, BBLoop) /\ getParentLoop(f, BBLoop) = L
                   THEN printLoop(f, BBLoop)
                 ELSE <<>>) \o Body(i + 1)
  IN <<Item("do", L)>> \o Body(1) \o <<Item("while", L)>>

InitLoops ==
  /\ fb = NewFunctionBuilder /\ last = NoLast
  /\ fn \in LoopNests
  /\ pos = <<1, 0>>
  /\ out = <<>>
  /\ cw = <<>> /\ ast = <<>>

\* printFunction, "print the basic blocks": one iteration for block pos[1].
AtBlock == pos[1] <= fn.n

PrintTopLevelLoop ==
  /\ AtBlock /\ getLoopFor(fn, pos[1]) # 0
  /\ getHeader(fn, getLoopFor(fn, pos[1])) = pos[1]
  /\ getParentLoop(fn, getLoopFor(fn, pos[1])) = 0
  /\ \E text \in {printLoop(fn, getLoopFor(fn, pos[1]))} : out' = out \o text
  /\ pos' = <<pos[1] + 1, 0>>
  /\ UNCHANGED <<fb, last, fn, cw, ast>>

PassLoopBlock ==
  /\ AtBlock /\ getLoopFor(fn, pos[1]) # 0
  /\ ~(/\ getHeader(fn, getLoopFor(fn, pos[1])) = pos[1]
       /\ getParentLoop(fn, getLoopFor(fn, pos[1])) = 0)
  /\ pos' = <<pos[1] + 1, 0>>
  /\ UNCHANGED <<fb, last, fn, out, cw, ast>>

PrintBasicBlock ==
  /\ AtBlock /\ getLoopFor(fn, pos[1]) = 0
  /\ out' = Append(out, Item("block", pos[1]))
  /\ pos' = <<pos[1] + 1, 0>>
  /\ UNCHANGED <<fb, last, fn, cw, ast>>

NextLoops ==
  \/ PrintTopLevelLoop
  \/ PassLoopBlock
  \/ PrintBasicBlock

SpecLoops == InitLoops /\ [][NextLoops]_vars

\* The loops whose `do {` is open at position i of the text, outermost
\* first.
RECURSIVE OpenLoops(_)
OpenLoops(i) ==
  IF i = 0 THEN <<>>
  ELSE IF out[i].k = "do" THEN Append(OpenLoops(i - 1), out[i].id)
  ELSE IF out[i].k = "while" THEN SubSeq(OpenLoops(i - 1), 1, Len(OpenLoops(i - 1)) - 1)
  ELSE OpenLoops(i - 1)

\* The loops around loop L, outermost first, L last.
RECURSIVE LoopChain(_, _)
LoopChain(f, L) == IF L = 0 THEN <<>> ELSE Append(LoopChain(f, f.parent[L]), L)

\* C26: when printFunction has gone through the blocks, every block has
\* been printed exactly once, a block outside loops outside every
\* `do { } while (1)`, a block whose innermost loop is L directly inside
\* that of L, the loops around L around it.
C26_EachBlockOnceInItsLoop ==
  ~AtBlock =>
    \A b \in 1..fn.n :
      /\ Cardinality({i \in 1..Len(out) : out[i] = Item("block", b)}) = 1
      /\ \A i \in 1..Len(out) :
           out[i] = Item("block", b) => OpenLoops(i) = LoopChain(fn, getLoopFor(fn, b))

\* A function with three loops inside each other, the innermost of which
\* has a header that is not its first block, has been printed.
C26_Witness ==
  /\ ~AtBlock
  /\ fn.parent[2] = 1 /\ fn.parent[3] = 2 /\ LoopsOf(fn) = LoopIds
  /\ \E b \in 1..fn.n : fn.loopOf[b] = 3 /\ b < fn.header[3]
  /\ out # <<>>

\* ------------------------------------------------------------------------
\* Helpers called and helpers defined (SpecPrint).
\* ------------------------------------------------------------------------

\* The first pieces of the names of the helpers, as written in a call and
\* in a definition.
HelperStem(s) ==
  CASE s \in {"llvm_", " llvm_"} -> "llvm_"
    [] s \in {"llvm_neg_", " llvm_neg_"} -> "llvm_neg_"
    [] s \in {"llvm_not_", " llvm_not_"} -> "llvm_not_"
    [] s \in {"llvm_select_", " llvm_select_"} -> "llvm_select_"
    [] s = "llvm_fcmp_" -> "llvm_fcmp_"
    [] OTHER -> ""

\* The name that starts at token i of a text: its pieces up to the
\* parenthesis.
RECURSIVE NamePieces(_, _)
NamePieces(text, i) ==
  IF i > Len(text) \/ text[i].s = "(" THEN <<>>
  ELSE <<text[i].s>> \o NamePieces(text, i + 1)

HelpersIn(text) ==
  {<<HelperStem(text[i].s)>> \o NamePieces(text, i + 1) :
     i \in {j \in 1..Len(text) : HelperStem(text[j].s) # ""}}

HelpersCalled == HelpersIn(out[1])
HelpersDefined == UNION {HelpersIn(out[i]) : i \in 2..Len(out)}

\* C27: once the header is written, every helper that the text of the
\* instruction calls (llvm_<op>_<type>, llvm_neg_<type>, llvm_not_<type>,
\* llvm_select_<type>, llvm_fcmp_<pred>) has a definition in the header.
C27_CalledHelpersAreDefined ==
  (PrintDone /\ fn.k \in {"op", "fcmp", "select"}) => HelpersCalled \subseteq HelpersDefined

\* C28: within one function two distinct values (two values with different
\* names, a named value and a temporary, or two temporaries) get different
\* identifiers from GetValueName, and a second call for the same value
\* returns the identifier of the first call.
C28_DistinctValuesDistinctIdentifiers ==
  (PrintDone /\ fn.k = "names") => (out[1] # out[2] /\ out[3] = out[1])

\* ------------------------------------------------------------------------
\* The value of the C written for an integer compare (SpecPrint).
\* ------------------------------------------------------------------------

\* The widths whose compares are evaluated, and the values a variable of w
\* bits takes: all of them up to four bits, the ends of the signed and
\* unsigned ranges above.
ComparedWidths == 2..16
CmpValues(w) ==
  IF w <= 4 THEN 0..(Pow2(w) - 1)
  ELSE {0, 1, Pow2(w - 1) - 1, Pow2(w - 1), Pow2(w) - 2, Pow2(w) - 1}

\* The bits of a C integer type, and the conversion of a value to it.
TypeBits(t) == IF t \in {"int8_t", "uint8_t"} THEN 8 ELSE 16
CastTo(t, v) ==
  LET u == v % Pow2(TypeBits(t)) IN
  IF t \in SignedCTypes /\ u >= Pow2(TypeBits(t) - 1) THEN u - Pow2(TypeBits(t)) ELSE u

\* The operand that starts at token i of a text: a variable, a number
\* (with its suffix u), or ((type)operand); its value and the token after it.
RECURSIVE PrimaryAt(_, _, _)
PrimaryAt(text, i, env) ==
  CASE text[i].s = "var" -> [v |-> env[text[i].n], next |-> i + 1]
    [] text[i].s = "signed" -> [v |-> text[i].n, next |-> i + 1]
    [] text[i].s = "unsigned" ->
         [v |-> LowVal(text[i].bits),
          next |-> IF i < Len(text) /\ text[i + 1].s = "u" THEN i + 2 ELSE i + 1]
    [] OTHER ->
         LET x == PrimaryAt(text, i + 4, env) IN
         [v |-> CastTo(text[i + 2].s, x.v), next |-> x.next + 1]

\* The C comparison operators on the promoted operands.
Compare(op, a, b) ==
  CASE op = " == " -> a = b
    [] op = " != " -> a # b
    [] op = " <= " -> a <= b
    [] op = " >= " -> a >= b
    [] op = " < " -> a < b
    [] OTHER -> a > b

\* The value of "operand operator operand".
ComparisonValue(text, env) ==
  LET l == PrimaryAt(text, 1, env)
      r == PrimaryAt(text, l.next + 1, env) IN
  Compare(text[l.next].s, l.v, r.v)

\* The icmp of the IR on values of w bits.
SignedValue(u, w) == IF u >= Pow2(w - 1) THEN u - Pow2(w) ELSE u
IRValueOf(Operand, w, env) == IF Operand.k = "const" THEN Operand.id % Pow2(w) ELSE env[Operand.id]
ICmpValue(I, w, env) ==
  LET a == IRValueOf(I.args[1], w, env)
      b == IRValueOf(I.args[2], w, env) IN
  IF isSignedPredicate(I.p) THEN Compare(ComparisonText(I.p), SignedValue(a, w), SignedValue(b, w))
  ELSE Compare(ComparisonText(I.p), a, b)

\* The C of the compare agrees with the IR for all values of the variables.
CmpAgrees ==
  \A a, b \in CmpValues(fn.ty.w) :
    ComparisonValue(out[1], <<a, b>>) = ICmpValue(fn.I, fn.ty.w, <<a, b>>)

NegativeConstant(v) == v.k = "const" /\ v.id < 0

\* C29: for a width that is not 8 or 16 bits (3, say), the C written for a
\* signed compare (slt, sle, sgt, sge), and for an eq or ne against a
\* negative constant, has the truth value of the compare of the IR on every
\* pair of values masked to the width.
C29_SignedCompareAgreesAtOddWidths ==
  (/\ PrintDone /\ fn.k = "cmp" /\ fn.ty.w \in ComparedWidths \ {8, 16}
   /\ \/ isSignedPredicate(fn.I.p)
      \/ fn.I.p \in {"eq", "ne"} /\ \E i \in 1..2 : NegativeConstant(fn.I.args[i]))
    => CmpAgrees

\* ------------------------------------------------------------------------
\* printContainedTypes over types that refer to each other (SpecTypes).
\* ------------------------------------------------------------------------

\* The types of a module are numbered; a type is its kind and its subtypes
\* (the elements of a struct, the element of an array, the pointee of a
\* pointer).  A struct without elements is empty.
TypeIds == {1, 2, 3}
TypeShapes ==
  {[k |-> "int", sub |-> <<>>]}
    \cup {[k |-> "struct", sub |-> e] : e \in UNION {[1..n -> TypeIds] : n \in 0..2}}
    \cup {[k |-> c, sub |-> <<e>>] : c \in {"array", "ptr"}, e \in TypeIds}

subtypes(types, Ty) == {types[Ty].sub[i] : i \in 1..Len(types[Ty].sub)}

\* The types held by value in a struct or an array.
ByValue(types, Ty) == IF types[Ty].k \in {"struct", "array"} THEN subtypes(types, Ty) ELSE {}

\* The types reached from a set of types in one or more steps of a relation.
RECURSIVE Closure(_, _, _, _)
Closure(Step(_, _), types, frontier, seen) ==
  LET new == UNION {Step(types, t) : t \in frontier} \ seen IN
  IF new = {} THEN seen ELSE Closure(Step, types, new, seen \cup new)

LiteralStep(types, Ty) == IF types[Ty].k \in {"array", "ptr"} THEN subtypes(types, Ty) ELSE {}

\* The type tables of a module: no type holds itself by value, a type that
\* refers to itself does so through a struct, and array, pointer and integer
\* types are unique.
TypeTables ==
  {types \in [TypeIds -> TypeShapes] :
     /\ \A t \in TypeIds : t \notin Closure(ByValue, types, {t}, {})
     /\ \A t \in TypeIds : t \notin Closure(LiteralStep, types, {t}, {})
     /\ \A t, u \in TypeIds : (t # u /\ types[t].k # "struct") => types[t] # types[u]}

\* ::isEmptyType on a numbered type.
RECURSIVE isEmptyTypeOf(_, _)
isEmptyTypeOf(types, Ty) ==
  CASE types[Ty].k = "struct" -> \A e \in subtypes(types, Ty) : isEmptyTypeOf(types, e)
    [] types[Ty].k = "array" -> isEmptyTypeOf(types, types[Ty].sub[1])
    [] OTHER -> FALSE

\* printContainedTypes on a numbered type: the set TypesPrinted and the
\* definitions written (the numbers of the types), after the call.
RECURSIVE printContainedTypesOf(_, _, _)
printContainedTypesOf(types, st, Ty) ==
  LET RECURSIVE Each(_, _)
      Each(s, i) ==
        IF i > Len(types[Ty].sub) THEN s
        ELSE Bind(printContainedTypesOf(types, s, types[Ty].sub[i]), LAMBDA s1 : Each(s1, i + 1))
  IN
  IF Ty \in st.TypesPrinted THEN st
  ELSE IF isEmptyTypeOf(types, Ty) THEN [st EXCEPT !.TypesPrinted = @ \cup {Ty}]
  ELSE Bind(Each([st EXCEPT !.TypesPrinted = @ \cup {Ty}], 1), LAMBDA in :
         IF types[Ty].k \in {"struct", "array"} THEN [in EXCEPT !.text = Append(@, Ty)] ELSE in)

\* TypedefDeclTypes holds struct and array types; a std::set of pointers is
\* walked in the order of the addresses, which is any order.
Orders(S) == {o \in UNION {[1..n -> S] : n \in 1..Cardinality(S)} : \A i, j \in 1..Len(o) : o[i] = o[j] => i = j}
TypeModules ==
  UNION {{[types |-> types, TypedefDeclTypes |-> o] :
            o \in Orders({t \in TypeIds : types[t].k \in {"struct", "array"}})} : types \in TypeTables}

InitTypes ==
  /\ fb = NewFunctionBuilder /\ last = NoLast
  /\ fn \in TypeModules
  /\ pos = <<1, 0>>
  /\ out = <<>>
  /\ cw = [TypesPrinted |-> {}] /\ ast = <<>>

\* printModuleTypes, "Types Definitions": one iteration of the loop over
\* TypedefDeclTypes.
PrintContainedTypes ==
  /\ pos[1] <= Len(fn.TypedefDeclTypes)
  /\ \E r \in {printContainedTypesOf(fn.types, [TypesPrinted |-> cw.TypesPrinted, text |-> out],
                                     fn.TypedefDeclTypes[pos[1]])} :
       /\ out' = r.text
       /\ cw' = [TypesPrinted |-> r.TypesPrinted]
  /\ pos' = <<pos[1] + 1, 0>>
  /\ UNCHANGED <<fb, last, fn, ast>>

NextTypes == PrintContainedTypes

SpecTypes == InitTypes /\ [][NextTypes]_vars

TypesDone == pos[1] > Len(fn.TypedefDeclTypes)

\* The types the walk has to define: the non-empty struct and array types
\* among the declared types and all they refer to.
DeclaredTypes == {fn.TypedefDeclTypes[i] : i \in 1..Len(fn.TypedefDeclTypes)}
TypesToDefine ==
  {t \in DeclaredTypes \cup Closure(subtypes, fn.types, DeclaredTypes, {}) :
     fn.types[t].k \in {"struct", "array"} /\ ~isEmptyTypeOf(fn.types, t)}

DefinedAt(t) == {i \in 1..Len(out) : out[i] = t}

\* C30: when the loop over TypedefDeclTypes is done, every non-empty struct
\* and array type has exactly one definition, and the definition of a type
\* held by value in another comes before the definition of that other type.
C30_ContainedTypesDefinedFirst ==
  TypesDone =>
    /\ \A t \in TypesToDefine : Cardinality(DefinedAt(t)) = 1
    /\ \A i \in 1..Len(out) :
         \A c \in ByValue(fn.types, out[i]) \cap TypesToDefine :
           \E j \in 1..(i - 1) : out[j] = c

====
